---- MODULE Spec2Model ----
(***************************************************************************)
(* The lexer (tokenize), the token filter (get_parse_tokens) and the       *)
(* module-level parser (file_input) of the fe parser crate.                *)
(*                                                                         *)
(* Source text is a sequence of one-character strings; all characters of   *)
(* the model are ASCII, so a character index is a byte offset.  Offsets    *)
(* are 0-based as in the source: the character at offset i of s is s[i+1]. *)
(***************************************************************************)
EXTENDS Integers, Sequences, FiniteSets, TLC

----------------------------------------------------------------------------
(* Bounds of the model *)

\* longest source over Alphabet
MaxLen == 4
\* longest source over IndentAlphabet
MaxIndentLen == 8
\* longest source over StrAlphabet
MaxStrLen == 8
\* longest run of mixed indentation characters before a line
MaxWs == 3
\* longest run of spaces before a line
MaxSpaces == 8
\* longest source after a string that failed to continue
MaxAfterErrorLen == 8

Alphabet == {" ", "\n", "a", "(", ")", "#", "\\", "\""}
IndentAlphabet == {" ", "\n", "a"}
StrAlphabet == {"\"", "\\", "\n"}

SeqsUpTo(S, n) == UNION {[1..k -> S] : k \in 0..n}

\* two lines "a", each after a run of indentation characters
WsAlphabet == {" ", "\t", "\f"}
Spaces(n) == [k \in 1..n |-> " "]
WsRuns == SeqsUpTo(WsAlphabet, MaxWs) \cup {Spaces(n) : n \in 0..MaxSpaces}
WsSources == {w1 \o <<"a", "\n">> \o w2 \o <<"a">> : w1 \in WsRuns, w2 \in WsRuns}

\* a backslash-continued string that its second line does not continue, and
\* then a source over StrAlphabet
AfterErrorSources ==
    {<<"\"", "\\", "\n", "\n">> \o s : s \in SeqsUpTo(StrAlphabet, MaxAfterErrorLen)}

Sources ==
    SeqsUpTo(Alphabet, MaxLen) \cup SeqsUpTo(IndentAlphabet, MaxIndentLen)
        \cup SeqsUpTo(StrAlphabet, MaxStrLen) \cup WsSources \cup AfterErrorSources

----------------------------------------------------------------------------
(* Values *)

TABSIZE == 8

None == <<>>
Some(v) == <<v>>
Unwrap(o) == o[1]

Span(s, e) == [start |-> s, end |-> e]

\* Token { kind, span }; the symbol of a Name is kept in string
Token(kind, s, e) == [kind |-> kind, string |-> <<>>, span |-> Span(s, e)]
NameToken(sym, s, e) == [kind |-> "Name", string |-> sym, span |-> Span(s, e)]

UNINDENT_MSG == "unindent does not match any outer indentation level"
EOF_STRING_MSG == "EOF in multi-line string"
EOF_STATEMENT_MSG == "EOF in multi-line statement"

NoResult == [tag |-> "None", msg |-> "", offset |-> 0, tokens |-> <<>>]
Ok(toks) == [tag |-> "Ok", msg |-> "", offset |-> 0, tokens |-> toks]
Err(m, off) == [tag |-> "Err", msg |-> m, offset |-> off, tokens |-> <<>>]
\* the process aborts: `attempt to subtract with overflow`
Panic == [tag |-> "Panic", msg |-> "", offset |-> 0, tokens |-> <<>>]

\* s[from..] with a 0-based offset
Slice(s, from) == SubSeq(s, from + 1, Len(s))
\* the character at 0-based offset p
At(s, p) == s[p + 1]

----------------------------------------------------------------------------
(* usize arithmetic of parenlev.  A value v of 0..2^64-1 is held by its    *)
(* representative modulo 2^64 nearest to zero, so 2^64-1 is held as -1 and *)
(* +1 and -1 wrap as the release build's arithmetic does.                  *)

UsizeIsZero(v) == v = 0
\* `v > 0` on the unsigned value
UsizeGtZero(v) == v # 0
\* the value is one the counter reached by wrapping below zero
UsizeWrapped(v) == v < 0

----------------------------------------------------------------------------
(* Character classes *)

IsIndentChar(c) == c \in {" ", "\t", "\f"}
IsAsciiDigit(c) == c \in {"0", "1", "2", "3", "4", "5", "6", "7", "8", "9"}
IsAsciiAlphabetic(c) == c \in {"a", "b", "c", "e", "i", "m", "n", "o", "p", "r", "s", "t", "v", "x"}
is_identifier_char(c) == c = "_" \/ IsAsciiAlphabetic(c) \/ IsAsciiDigit(c)

----------------------------------------------------------------------------
(* Helpers of the crate that tokenize calls: string_utils and the          *)
(* tokenizer's regular expressions.                                        *)

\* lines_with_endings: the end offset of the line that starts at offset p
\* (just after its "\n", or the end of the input)
RECURSIVE LineEndFrom(_, _)
LineEndFrom(s, p) ==
    IF p >= Len(s) THEN Len(s)
    ELSE IF At(s, p) = "\n" THEN p + 1
    ELSE LineEndFrom(s, p + 1)

\* rstrip_slice(text, "\r\n"): the length of text without its trailing
\* line-terminator characters
RECURSIVE RstripLen(_)
RstripLen(text) ==
    IF Len(text) > 0 /\ text[Len(text)] \in {"\r", "\n"}
    THEN RstripLen(SubSeq(text, 1, Len(text) - 1))
    ELSE Len(text)

\* str::trim().is_empty(): only white space
TrimIsEmpty(text) == \A i \in 1..Len(text) : text[i] \in {" ", "\t", "\f", "\n", "\r"}

\* WHITESPACE = [ \f\t]*: the offset after the white space at p
RECURSIVE SkipWhitespace(_, _)
SkipWhitespace(l, p) ==
    IF p < Len(l) /\ IsIndentChar(At(l, p)) THEN SkipWhitespace(l, p + 1) ELSE p

\* COMMENT = #[^\r\n]*: the offset after the comment that starts at p
RECURSIVE CommentEnd(_, _)
CommentEnd(l, p) ==
    IF p < Len(l) /\ At(l, p) \notin {"\r", "\n"} THEN CommentEnd(l, p + 1) ELSE p

\* NAME = \w+: the offset after the identifier characters at p
RECURSIVE NameEnd(_, _)
NameEnd(l, p) ==
    IF p < Len(l) /\ is_identifier_char(At(l, p)) THEN NameEnd(l, p + 1) ELSE p

StartsWithTriple(l, p) ==
    p + 2 < Len(l) /\ At(l, p) = "\"" /\ At(l, p + 1) = "\"" /\ At(l, p + 2) = "\""

\* the ContStr pattern after its opening quote:
\* [^\n"\\]*(?:\\.[^\n"\\]*)*("|\\\r?\n); the end offset, or -1
RECURSIVE ContStrEnd(_, _)
ContStrEnd(l, p) ==
    IF p >= Len(l) THEN -1
    ELSE IF At(l, p) = "\"" THEN p + 1
    ELSE IF At(l, p) = "\n" THEN -1
    ELSE IF At(l, p) = "\\"
         THEN IF p + 1 >= Len(l) THEN -1
              ELSE IF At(l, p + 1) = "\n" THEN p + 2
              ELSE ContStrEnd(l, p + 2)
    ELSE ContStrEnd(l, p + 1)

NoMatch == [matched |-> FALSE, start |-> 0, end |-> 0]
Match(s, e) == [matched |-> TRUE, start |-> s, end |-> e]

\* pseudo_token_re.captures(&line[line_pos..]): capture group 1 of the
\* anchored pseudo-token pattern, in offsets of the line
PseudoMatch(l, line_pos) ==
    LET p == SkipWhitespace(l, line_pos) IN
    IF p = Len(l) THEN Match(p, p)
    ELSE LET c == At(l, p) IN
         IF c = "\\"
         THEN IF p + 1 < Len(l) /\ At(l, p + 1) = "\n" THEN Match(p, p + 2) ELSE NoMatch
         ELSE IF c = "#" THEN Match(p, CommentEnd(l, p))
         ELSE IF c = "\""
         THEN IF StartsWithTriple(l, p) THEN Match(p, p + 3)
              ELSE IF ContStrEnd(l, p + 1) = -1 THEN NoMatch
              ELSE Match(p, ContStrEnd(l, p + 1))
         ELSE IF c = "\n" THEN Match(p, p + 1)
         ELSE IF c \in {"(", ")"} THEN Match(p, p + 1)
         ELSE IF is_identifier_char(c) THEN Match(p, NameEnd(l, p))
         ELSE NoMatch

\* DOUBLE, the tail of a "-string, matched at p:
\* [^"\\]*(?:\\.[^"\\]*)*"; the end offset, or -1
RECURSIVE DoubleAt(_, _)
DoubleAt(l, p) ==
    IF p >= Len(l) THEN -1
    ELSE IF At(l, p) = "\"" THEN p + 1
    ELSE IF At(l, p) = "\\"
         THEN IF p + 1 < Len(l) /\ At(l, p + 1) # "\n" THEN DoubleAt(l, p + 2) ELSE -1
    ELSE DoubleAt(l, p + 1)

\* DOUBLE3, the tail of a """-string, matched at p; the end offset, or -1
RECURSIVE Double3At(_, _)
Double3At(l, p) ==
    IF p >= Len(l) THEN -1
    ELSE IF StartsWithTriple(l, p) THEN p + 3
    ELSE IF At(l, p) = "\\"
         THEN IF p + 1 < Len(l) /\ At(l, p + 1) # "\n" THEN Double3At(l, p + 2) ELSE -1
    ELSE Double3At(l, p + 1)

ReAt(re, l, p) == IF re = "DOUBLE3" THEN Double3At(l, p) ELSE DoubleAt(l, p)

\* Regex::find_at(line, from): the end of the leftmost match that starts at
\* or after from, or -1 (the patterns are not anchored)
RECURSIVE FindAt(_, _, _)
FindAt(re, l, from) ==
    IF from > Len(l) THEN -1
    ELSE IF ReAt(re, l, from) # -1 THEN ReAt(re, l, from)
    ELSE FindAt(re, l, from + 1)

\* TokenKind::try_from(token) of an operator or punctuation token
PunctKind(c) == IF c = "(" THEN "OpenParen" ELSE IF c = ")" THEN "CloseParen" ELSE "Op"

----------------------------------------------------------------------------
(* tokenize: the pieces of the loop body *)

Last(q) == q[Len(q)]
Contains(q, v) == \E i \in 1..Len(q) : q[i] = v

\* the closure get_contstr_end_re (no prefix letters in the model)
GetContstrEndRe(token) ==
    IF Len(token) >= 3 /\ SubSeq(token, 1, 3) = <<"\"", "\"", "\"">> THEN "DOUBLE3"
    ELSE IF Len(token) >= 3 /\ SubSeq(token, 1, 3) = <<"'", "'", "'">> THEN "SINGLE3"
    ELSE IF Len(token) >= 1 /\ token[1] = "\"" THEN "DOUBLE"
    ELSE "SINGLE"

\* IndentColumn with a tab as wide as TABSIZE wherever it stands
IndentColumn_TabAdds(c, column) ==
    IF c = " " THEN column + 1
    ELSE IF c = "\t" THEN column + TABSIZE
    ELSE 0

\* the column reached by one leading character
IndentColumn(c, column) ==
    IF c = " " THEN column + 1
    ELSE IF c = "\t" THEN (column \div TABSIZE + 1) * TABSIZE
    ELSE 0

\* "Measure leading whitespace": the column and the line position after it
RECURSIVE MeasureFrom(_, _, _)
MeasureFrom(l, p, column) ==
    IF p < Len(l) /\ IsIndentChar(At(l, p))
    THEN MeasureFrom(l, p + 1, IndentColumn(At(l, p), column))
    ELSE [column |-> column, line_pos |-> p]

MeasureIndent(l) == MeasureFrom(l, 0, 0)

\* the line holds only a comment or a line terminator after its indentation
IsBlankOrComment(l, p) == At(l, p) \in {"#", "\r", "\n"}

\* BlankLineTokens with the line terminator as a Newline
BlankLineTokens_Newline(l, line_start_, line_end_, p) ==
    IF At(l, p) = "#"
    THEN LET n == RstripLen(Slice(l, p)) IN
         << Token("Comment", line_start_ + p, line_start_ + p + n),
            Token("Newline", line_start_ + p + n, line_end_) >>
    ELSE << Token("Newline", line_start_ + p, line_end_) >>

\* the tokens of a blank or comment-only line
BlankLineTokens(l, line_start_, line_end_, p) ==
    IF At(l, p) = "#"
    THEN LET n == RstripLen(Slice(l, p)) IN
         << Token("Comment", line_start_ + p, line_start_ + p + n),
            Token("WhitespaceNewline", line_start_ + p + n, line_end_) >>
    ELSE << Token("WhitespaceNewline", line_start_ + p, line_end_) >>

\* `if column > *indents.last().unwrap()`: the stack and the Indent token
PushIndent(ind, column) == IF column > Last(ind) THEN Append(ind, column) ELSE ind

IndentTokens(ind, column, line_start_, rest_off) ==
    IF column > Last(ind) THEN << Token("Indent", line_start_, rest_off) >> ELSE << >>

\* UnindentMismatch with the containment test made before the push
UnindentMismatch_BeforePush(ind, column) == ~Contains(ind, column)

\* `if !indents.contains(&column)`, after the push
UnindentMismatch(ind, column) == ~Contains(PushIndent(ind, column), column)

\* UnindentOffset at the last indentation character
UnindentOffset_LastIndentChar(line_start_, p) == line_start_ + p - 1

\* the offset the unindent error reports
UnindentOffset(line_start_, p) == line_start_ + p

\* `while column < *indents.last().unwrap()`: the stack after the pops
RECURSIVE PopIndents(_, _)
PopIndents(ind, column) ==
    IF column < Last(ind) THEN PopIndents(SubSeq(ind, 1, Len(ind) - 1), column) ELSE ind

\* DedentTokens with consecutive dedents collapsed into one
DedentTokens_Collapsed(n, off) == [i \in 1..(IF n > 0 THEN 1 ELSE 0) |-> Token("Dedent", off, off)]

\* n Dedent tokens of length zero at off
DedentTokens(n, off) == [i \in 1..n |-> Token("Dedent", off, off)]

\* the kind of a line terminator scanned in a line
NewlineKind(plev) == IF UsizeGtZero(plev) THEN "WhitespaceNewline" ELSE "Newline"

\* `initial.is_ascii_digit() || (initial == '.' && token != "." && token != "...")`
IsNum(initial, token) ==
    IsAsciiDigit(initial) \/ (initial = "." /\ token # <<".">> /\ token # <<".", ".", ".">>)

\* which arm of the in-line scan takes the match at line position p
TokClass(l, p) ==
    LET m == PseudoMatch(l, p) IN
    IF ~m.matched THEN "error"
    ELSE IF m.start = m.end THEN "empty"
    ELSE LET token == SubSeq(l, m.start + 1, m.end)
             initial == At(l, m.start)
         IN IF IsNum(initial, token) THEN "plain"
            ELSE IF initial \in {"\r", "\n"} THEN "plain"
            ELSE IF initial = "#" THEN "plain"
            ELSE IF token = <<"\"", "\"", "\"">> THEN "triple"
            ELSE IF initial = "\"" THEN "single"
            ELSE IF is_identifier_char(initial) THEN "plain"
            ELSE IF initial = "\\" THEN "backslash"
            ELSE "punct"

\* the token of a Num, line terminator, Comment or Name match
PlainToken(l, m, line_start_, plev) ==
    LET token == SubSeq(l, m.start + 1, m.end)
        initial == At(l, m.start)
        soff == line_start_ + m.start
        eoff == line_start_ + m.end
    IN IF IsNum(initial, token) THEN Token("Num", soff, eoff)
       ELSE IF initial \in {"\r", "\n"} THEN Token(NewlineKind(plev), soff, eoff)
       ELSE IF initial = "#" THEN Token("Comment", soff, eoff)
       ELSE NameToken(token, soff, eoff)

\* `line.ends_with("\\\n")`
EndsWithBackslashNewline(l) ==
    Len(l) >= 2 /\ l[Len(l) - 1] = "\\" /\ l[Len(l)] = "\n"

\* FinalNewline with the end position of Python's tokenize: one past the input
FinalNewline_OnePast(line_, input_len) ==
    IF Len(line_) > 0 /\ Last(line_) \notin {"\r", "\n"}
    THEN << Token(IF TrimIsEmpty(line_) THEN "WhitespaceNewline" ELSE "Newline",
                  input_len, input_len + 1) >>
    ELSE << >>

\* FinalNewline after a line with a terminator too
FinalNewline_Always(line_, input_len) ==
    IF Len(line_) > 0
    THEN << Token(IF TrimIsEmpty(line_) THEN "WhitespaceNewline" ELSE "Newline",
                  input_len, input_len) >>
    ELSE << >>

\* the tokens after the loop: the virtual Newline, the Dedents, the EndMarker
FinalNewline(line_, input_len) ==
    IF Len(line_) > 0 /\ Last(line_) \notin {"\r", "\n"}
    THEN << Token(IF TrimIsEmpty(line_) THEN "WhitespaceNewline" ELSE "Newline",
                  input_len, input_len) >>
    ELSE << >>

\* FinalDedents without `skip(1)`
FinalDedents_NoSkip(ind, input_len) == DedentTokens(Len(ind), input_len)

FinalDedents(ind, input_len) == DedentTokens(Len(ind) - 1, input_len)

\* Termination without the check of contstr_start
Termination_NoStringCheck(input_len, cs, cont, line_, ind, res) ==
    IF cont THEN Err(EOF_STATEMENT_MSG, input_len)
    ELSE Ok(res \o FinalNewline(line_, input_len) \o FinalDedents(ind, input_len)
                \o << Token("EndMarker", input_len, input_len) >>)

\* Termination without the check of continued
Termination_NoContinuedCheck(input_len, cs, cont, line_, ind, res) ==
    IF cs # None THEN Err(EOF_STRING_MSG, input_len)
    ELSE Ok(res \o FinalNewline(line_, input_len) \o FinalDedents(ind, input_len)
                \o << Token("EndMarker", input_len, input_len) >>)

\* what tokenize returns once the lines are exhausted
Termination(input_len, cs, cont, line_, ind, res) ==
    IF cs # None THEN Err(EOF_STRING_MSG, input_len)
    ELSE IF cont THEN Err(EOF_STATEMENT_MSG, input_len)
    ELSE Ok(res \o FinalNewline(line_, input_len) \o FinalDedents(ind, input_len)
                \o << Token("EndMarker", input_len, input_len) >>)

\* get_parse_tokens: the filter over the tokens
IsParseToken(t) == t.kind \notin {"Comment", "WhitespaceNewline"}

\* FilterTokens dropping every newline kind
FilterTokens_DropsNewline(toks) ==
    SelectSeq(toks, LAMBDA t : t.kind \notin {"Comment", "WhitespaceNewline", "Newline"})

FilterTokens(toks) == SelectSeq(toks, IsParseToken)

----------------------------------------------------------------------------
(* The parser combinators over a token slice.  A slice is the token list   *)
(* and the index i of its first token.  A parser yields ok, the index of   *)
(* the first token it did not consume (on failure: of the slice the error  *)
(* carries), and the Spanned value it built.                               *)

Parsed(rest, span, node) == [ok |-> TRUE, rest |-> rest, span |-> span, node |-> node]
Failed(at) == [ok |-> FALSE, rest |-> at, span |-> Span(0, 0), node |-> << >>]
Spanned(r) == [node |-> r.node, span |-> r.span]

\* Span::from_pair: the smallest span covering both
FromPair(a, b) ==
    Span(IF a.start <= b.start THEN a.start ELSE b.start,
         IF a.end >= b.end THEN a.end ELSE b.end)

import_kw == <<"i", "m", "p", "o", "r", "t">>
from_kw == <<"f", "r", "o", "m">>
as_kw == <<"a", "s">>
contract_kw == <<"c", "o", "n", "t", "r", "a", "c", "t">>
event_kw == <<"e", "v", "e", "n", "t">>

\* `let (input, x) = p(input)?; ...`: the rest of the body K on p's result r
AndThen(r, K(_)) == IF r.ok THEN K(r) ELSE r

\* alt((a, b)): the first to succeed, else the error of the last
Alt(a, b) == IF a.ok THEN a ELSE b

\* verify(p, pred), p's result being r and the slice i
Verify(r, i, Pred(_)) == IF r.ok /\ Pred(r.node) THEN r ELSE Failed(i)

\* preceded(a, p), a's result being r
Preceded(r, P(_)) == IF r.ok THEN P(r.rest) ELSE r

\* opt(p), p's result being r and the slice i
Opt(r, i) ==
    IF r.ok THEN [some |-> TRUE, rest |-> r.rest, node |-> r.node, span |-> r.span]
    ELSE [some |-> FALSE, rest |-> i, node |-> << >>, span |-> Span(0, 0)]

ConsItem(item, more) ==
    [rest |-> more.rest, items |-> << item >> \o more.items, err |-> more.err]

\* many0(p), p's result on the slice i being r and More the repetition on
\* the rest: the items, the rest, and the error that ended the repetition
Many0(r, i, More(_)) ==
    IF r.ok THEN ConsItem(Spanned(r), More(r.rest))
    ELSE [rest |-> i, items |-> << >>, err |-> r]

\* many1(p), given many0(p): no item is the error of the first attempt
Many1(many, K(_)) == IF many.items = << >> THEN many.err ELSE K(many)

one_token(toks, i) ==
    IF i > Len(toks) THEN Failed(i) ELSE Parsed(i + 1, toks[i].span, toks[i])

token(kind, toks, i) == Verify(one_token(toks, i), i, LAMBDA t : t.kind = kind)

\* name_token with a catch-all arm that lets an ErrorToken through
name_token_CatchAll(toks, i) ==
    Verify(one_token(toks, i), i, LAMBDA t : t.kind \in {"Name", "ErrorToken"})

name_token(toks, i) == Verify(one_token(toks, i), i, LAMBDA t : t.kind = "Name")

name_string(string, toks, i) ==
    Verify(one_token(toks, i), i, LAMBDA t : t.kind = "Name" /\ t.string = string)

indent_token(toks, i) == token("Indent", toks, i)
dedent_token(toks, i) == token("Dedent", toks, i)
newline_token(toks, i) == token("Newline", toks, i)
endmarker_token(toks, i) == token("EndMarker", toks, i)

\* opt(preceded(name_string("as"), name_token))
OptAlias(toks, i) ==
    Opt(Preceded(name_string(as_kw, toks, i), LAMBDA j : name_token(toks, j)), i)

AliasString(alias) == IF alias.some THEN Some(alias.node.string) ELSE None
\* the span from a first element to the alias, if any
AliasSpan(first, alias) == IF alias.some THEN FromPair(first.span, alias.span) ELSE first.span

\* many0(preceded(token(Dot), name_token))
RECURSIVE DotNames(_, _)
DotNames(toks, i) ==
    Many0(Preceded(token("Dot", toks, i), LAMBDA j : name_token(toks, j)), i,
          LAMBDA j : DotNames(toks, j))

DottedPath(first_part, other_parts) ==
    Parsed(other_parts.rest,
           IF other_parts.items = << >> THEN first_part.span
           ELSE FromPair(first_part.span, Last(other_parts.items).span),
           << first_part.node.string >>
               \o [k \in 1..Len(other_parts.items) |-> other_parts.items[k].node.string])

dotted_name(toks, i) ==
    AndThen(name_token(toks, i), LAMBDA first_part :
        DottedPath(first_part, DotNames(toks, first_part.rest)))

\* many0(alt((token(Dot), token(Ellipsis))))
RECURSIVE DotTokens(_, _)
DotTokens(toks, i) ==
    Many0(Alt(token("Dot", toks, i), token("Ellipsis", toks, i)), i,
          LAMBDA j : DotTokens(toks, j))

\* SumWidths counting every token of the run as 1
SumWidths_CountTokens(ts) == Len(ts)

\* the sum of `if t.kind == Dot { 1 } else { 3 }` over the tokens
RECURSIVE SumWidths(_)
SumWidths(ts) ==
    IF ts = << >> THEN 0
    ELSE (IF ts[1].node.kind = "Dot" THEN 1 ELSE 3) + SumWidths(Tail(ts))

dots_to_int(toks, i) ==
    Many1(DotTokens(toks, i), LAMBDA many :
        Parsed(many.rest, FromPair(many.items[1].span, Last(many.items).span),
               SumWidths(many.items) - 1))

SimpleImportName(path, alias) ==
    Parsed(alias.rest, AliasSpan(path, alias),
           [path |-> path.node, alias |-> AliasString(alias)])

simple_import_name(toks, i) ==
    AndThen(dotted_name(toks, i), LAMBDA path :
        SimpleImportName(path, OptAlias(toks, path.rest)))

\* many0(preceded(token(Comma), simple_import_name))
RECURSIVE CommaSimpleImportNames(_, _)
CommaSimpleImportNames(toks, i) ==
    Many0(Preceded(token("Comma", toks, i), LAMBDA j : simple_import_name(toks, j)), i,
          LAMBDA j : CommaSimpleImportNames(toks, j))

SimpleImport(kw, names, rest) ==
    Parsed(rest, FromPair(kw.span, Last(names).span),
           [type |-> "SimpleImport", names |-> names])

ConsNames(kw, first_name, other_names) ==
    SimpleImport(kw, << Spanned(first_name) >> \o other_names.items, other_names.rest)

simple_import(toks, i) ==
    AndThen(name_string(import_kw, toks, i), LAMBDA kw :
    AndThen(simple_import_name(toks, kw.rest), LAMBDA first_name :
        ConsNames(kw, first_name, CommaSimpleImportNames(toks, first_name.rest))))

FromImportName(name, alias) ==
    Parsed(alias.rest, AliasSpan(name, alias),
           [name |-> name.node.string, alias |-> AliasString(alias)])

from_import_name(toks, i) ==
    AndThen(name_token(toks, i), LAMBDA name :
        FromImportName(name, OptAlias(toks, name.rest)))

\* many0(preceded(token(Comma), from_import_name))
RECURSIVE CommaFromImportNames(_, _)
CommaFromImportNames(toks, i) ==
    Many0(Preceded(token("Comma", toks, i), LAMBDA j : from_import_name(toks, j)), i,
          LAMBDA j : CommaFromImportNames(toks, j))

\* the list node: its span ends at the trailing comma if there is one
FromImportNamesList(first_name, other_names, comma_tok) ==
    Parsed(comma_tok.rest,
           IF comma_tok.some THEN FromPair(first_name.span, comma_tok.span)
           ELSE FromPair(first_name.span,
                         Last(<< Spanned(first_name) >> \o other_names.items).span),
           [type |-> "List", names |-> << Spanned(first_name) >> \o other_names.items])

FromImportNamesTail(toks, first_name, other_names) ==
    FromImportNamesList(first_name, other_names,
                        Opt(token("Comma", toks, other_names.rest), other_names.rest))

from_import_names_list(toks, i) ==
    AndThen(from_import_name(toks, i), LAMBDA first_name :
        FromImportNamesTail(toks, first_name, CommaFromImportNames(toks, first_name.rest)))

from_import_names_star(toks, i) ==
    AndThen(token("Star", toks, i), LAMBDA star :
        Parsed(star.rest, star.span, [type |-> "Star", names |-> << >>]))

from_import_names_parens(toks, i) ==
    AndThen(token("OpenParen", toks, i), LAMBDA o_paren :
    AndThen(from_import_names_list(toks, o_paren.rest), LAMBDA names :
    AndThen(token("CloseParen", toks, names.rest), LAMBDA c_paren :
        Parsed(c_paren.rest, FromPair(o_paren.span, c_paren.span), names.node))))

from_import_names(toks, i) ==
    Alt(from_import_names_star(toks, i),
        Alt(from_import_names_parens(toks, i), from_import_names_list(toks, i)))

\* FromImport spanned from the keyword to the path
FromImport_ToPath(kw, path, names) ==
    Parsed(names.rest, FromPair(kw.span, path.span),
           [type |-> "FromImport", path |-> path, names |-> Spanned(names)])

\* the FromImport statement of a path and names after the keyword kw
FromImport(kw, path, names) ==
    Parsed(names.rest, FromPair(kw.span, names.span),
           [type |-> "FromImport", path |-> path, names |-> Spanned(names)])

\* "import" from_import_names after a path
ImportNames(toks, kw, path, i) ==
    AndThen(name_string(import_kw, toks, i), LAMBDA imp :
    AndThen(from_import_names(toks, imp.rest), LAMBDA names :
        FromImport(kw, path, names)))

ParentOnlyPath(parent_level) ==
    [node |-> [type |-> "Relative", parent_level |-> parent_level.node, path |-> << >>],
     span |-> parent_level.span]

from_import_parent_alt(toks, i) ==
    AndThen(name_string(from_kw, toks, i), LAMBDA kw :
    AndThen(dots_to_int(toks, kw.rest), LAMBDA parent_level :
        ImportNames(toks, kw, ParentOnlyPath(parent_level), parent_level.rest)))

FromImportSubPath(opt_parent_level, dn) ==
    IF opt_parent_level.some
    THEN Parsed(dn.rest, FromPair(opt_parent_level.span, dn.span),
                [type |-> "Relative", parent_level |-> opt_parent_level.node,
                 path |-> dn.node])
    ELSE Parsed(dn.rest, dn.span,
                [type |-> "Absolute", parent_level |-> 0, path |-> dn.node])

SubPathAfter(toks, opt_parent_level) ==
    AndThen(dotted_name(toks, opt_parent_level.rest), LAMBDA dn :
        FromImportSubPath(opt_parent_level, dn))

from_import_sub_path(toks, i) == SubPathAfter(toks, Opt(dots_to_int(toks, i), i))

from_import_sub_alt(toks, i) ==
    AndThen(name_string(from_kw, toks, i), LAMBDA kw :
    AndThen(from_import_sub_path(toks, kw.rest), LAMBDA path :
        ImportNames(toks, kw, Spanned(path), path.rest)))

from_import(toks, i) == Alt(from_import_parent_alt(toks, i), from_import_sub_alt(toks, i))

\* import_stmt spanned up to its Newline
import_stmt_ToNewline(toks, i) ==
    AndThen(Alt(simple_import(toks, i), from_import(toks, i)), LAMBDA stmt :
    AndThen(newline_token(toks, stmt.rest), LAMBDA nl :
        Parsed(nl.rest, FromPair(stmt.span, nl.span), stmt.node)))

\* terminated(alt((simple_import, from_import)), newline_token)
import_stmt(toks, i) ==
    AndThen(Alt(simple_import(toks, i), from_import(toks, i)), LAMBDA stmt :
    AndThen(newline_token(toks, stmt.rest), LAMBDA nl :
        Parsed(nl.rest, stmt.span, stmt.node)))

event_field(toks, i) ==
    AndThen(name_token(toks, i), LAMBDA name :
    AndThen(token("Colon", toks, name.rest), LAMBDA colon :
    AndThen(name_token(toks, colon.rest), LAMBDA typ :
    AndThen(newline_token(toks, typ.rest), LAMBDA nl :
        Parsed(nl.rest, FromPair(name.span, typ.span),
               [name |-> name.node.string, typ |-> typ.node.string])))))

\* many0(event_field)
RECURSIVE EventFields(_, _)
EventFields(toks, i) == Many0(event_field(toks, i), i, LAMBDA j : EventFields(toks, j))

\* keyword name ":" NEWLINE INDENT: the keyword's span and the name
BlockHeader(kw_string, toks, i) ==
    AndThen(name_string(kw_string, toks, i), LAMBDA kw :
    AndThen(name_token(toks, kw.rest), LAMBDA name :
    AndThen(token("Colon", toks, name.rest), LAMBDA colon :
    AndThen(newline_token(toks, colon.rest), LAMBDA nl :
    AndThen(indent_token(toks, nl.rest), LAMBDA ind :
        Parsed(ind.rest, kw.span, name.node.string))))))

event_def(toks, i) ==
    AndThen(BlockHeader(event_kw, toks, i), LAMBDA head :
    Many1(EventFields(toks, head.rest), LAMBDA fields :
    AndThen(dedent_token(toks, fields.rest), LAMBDA ded :
        Parsed(ded.rest, FromPair(head.span, Last(fields.items).span),
               [type |-> "EventDef", name |-> head.node, fields |-> fields.items]))))

contract_stmt(toks, i) == event_def(toks, i)

\* many0(contract_stmt)
RECURSIVE ContractStmts(_, _)
ContractStmts(toks, i) ==
    Many0(contract_stmt(toks, i), i, LAMBDA j : ContractStmts(toks, j))

contract_def(toks, i) ==
    AndThen(BlockHeader(contract_kw, toks, i), LAMBDA head :
    Many1(ContractStmts(toks, head.rest), LAMBDA body :
    AndThen(dedent_token(toks, body.rest), LAMBDA ded :
        Parsed(ded.rest, FromPair(head.span, Last(body.items).span),
               [type |-> "ContractDef", name |-> head.node, body |-> body.items]))))

module_stmt(toks, i) == Alt(import_stmt(toks, i), contract_def(toks, i))

\* many0(module_stmt)
RECURSIVE ModuleStmts(_, _)
ModuleStmts(toks, i) == Many0(module_stmt(toks, i), i, LAMBDA j : ModuleStmts(toks, j))

\* empty_file_input spanned at the start of the source
empty_file_input_ZeroSpan(toks, i) ==
    AndThen(endmarker_token(toks, i), LAMBDA end_tok :
        Parsed(end_tok.rest, Span(0, 0), [body |-> << >>]))

empty_file_input(toks, i) ==
    AndThen(endmarker_token(toks, i), LAMBDA end_tok :
        Parsed(end_tok.rest, end_tok.span, [body |-> << >>]))

non_empty_file_input(toks, i) ==
    Many1(ModuleStmts(toks, i), LAMBDA body :
    AndThen(endmarker_token(toks, body.rest), LAMBDA end_tok :
        Parsed(end_tok.rest, FromPair(body.items[1].span, Last(body.items).span),
               [body |-> body.items])))

file_input(toks, i) == Alt(empty_file_input(toks, i), non_empty_file_input(toks, i))

----------------------------------------------------------------------------
(* The constant expression parsers *)

num_token(toks, i) == Verify(one_token(toks, i), i, LAMBDA t : t.kind = "Num")

\* Operator::try_from and UnaryOp::try_from on the operator token
OperatorOf(kind) ==
    CASE kind = "Plus" -> "Add"
      [] kind = "Minus" -> "Sub"
      [] kind = "Star" -> "Mul"
      [] kind = "Slash" -> "Div"
      [] kind = "Percent" -> "Mod"
      [] kind = "StarStar" -> "Pow"

UnaryOpOf(kind) ==
    CASE kind = "Plus" -> "UPlus"
      [] kind = "Minus" -> "UMinus"
      [] kind = "Tilde" -> "Invert"

\* ConstExpr::BinOp of two spanned operands, spanned by from_pair
BinOp(left, op, right) ==
    [node |-> [type |-> "BinOp", left |-> left, op |-> op, right |-> right],
     span |-> FromPair(left.span, right.span)]

\* the spanned value v as the result of a parser that stopped at rest
ParsedSpanned(rest, v) == Parsed(rest, v.span, v.node)

\* FoldBinOps nesting to the right
RECURSIVE FoldBinOps_Right(_, _)
FoldBinOps_Right(left_expr, tail) ==
    IF tail = << >> THEN left_expr
    ELSE BinOp(left_expr, OperatorOf(tail[1].node.op_tok.kind),
               FoldBinOps_Right(tail[1].node.right_expr, Tail(tail)))

\* `for (op_tok, right_expr) in tail { left_expr = BinOp ... }`
RECURSIVE FoldBinOps(_, _)
FoldBinOps(left_expr, tail) ==
    IF tail = << >> THEN left_expr
    ELSE FoldBinOps(BinOp(left_expr, OperatorOf(tail[1].node.op_tok.kind),
                          tail[1].node.right_expr),
                    Tail(tail))

RECURSIVE const_expr(_, _)
RECURSIVE const_term(_, _)
RECURSIVE const_factor(_, _)
RECURSIVE const_power(_, _)
RECURSIVE const_power_AtomRight(_, _)
RECURSIVE const_atom(_, _)
RECURSIVE const_group(_, _)
RECURSIVE ExprTail(_, _)
RECURSIVE TermTail(_, _)

\* pair(token(kind), const_term)
TermPair(kind, toks, i) ==
    AndThen(token(kind, toks, i), LAMBDA op_tok :
    AndThen(const_term(toks, op_tok.rest), LAMBDA right_expr :
        Parsed(right_expr.rest, right_expr.span,
               [op_tok |-> op_tok.node, right_expr |-> Spanned(right_expr)])))

\* pair(token(kind), const_factor)
FactorPair(kind, toks, i) ==
    AndThen(token(kind, toks, i), LAMBDA op_tok :
    AndThen(const_factor(toks, op_tok.rest), LAMBDA right_expr :
        Parsed(right_expr.rest, right_expr.span,
               [op_tok |-> op_tok.node, right_expr |-> Spanned(right_expr)])))

\* many0(alt((pair(token(Plus), const_term), pair(token(Minus), const_term))))
ExprTail(toks, i) ==
    Many0(Alt(TermPair("Plus", toks, i), TermPair("Minus", toks, i)), i,
          LAMBDA j : ExprTail(toks, j))

\* many0(alt((pair(token(Star), ..), pair(token(Slash), ..), pair(token(Percent), ..))))
TermTail(toks, i) ==
    Many0(Alt(FactorPair("Star", toks, i),
              Alt(FactorPair("Slash", toks, i), FactorPair("Percent", toks, i))), i,
          LAMBDA j : TermTail(toks, j))

FoldTail(head, tail) == ParsedSpanned(tail.rest, FoldBinOps(Spanned(head), tail.items))

const_expr(toks, i) ==
    AndThen(const_term(toks, i), LAMBDA head : FoldTail(head, ExprTail(toks, head.rest)))

const_term(toks, i) ==
    AndThen(const_factor(toks, i), LAMBDA head : FoldTail(head, TermTail(toks, head.rest)))

\* the closure unary_op of const_factor
UnaryOpExpr(toks, i) ==
    AndThen(Alt(token("Plus", toks, i), Alt(token("Minus", toks, i), token("Tilde", toks, i))),
            LAMBDA op_tok :
    AndThen(const_factor(toks, op_tok.rest), LAMBDA operand :
        Parsed(operand.rest, FromPair(op_tok.span, operand.span),
               [type |-> "UnaryOp", op |-> UnaryOpOf(op_tok.node.kind),
                operand |-> Spanned(operand)])))

const_factor(toks, i) == Alt(UnaryOpExpr(toks, i), const_power(toks, i))

\* the closure bin_op of const_power, its right operand parsed by Right
PowExpr(toks, i, Right(_)) ==
    AndThen(const_atom(toks, i), LAMBDA left :
    AndThen(token("StarStar", toks, left.rest), LAMBDA op_tok :
    AndThen(Right(op_tok.rest), LAMBDA right :
        ParsedSpanned(right.rest, BinOp(Spanned(left), "Pow", Spanned(right))))))

\* const_power with a const_atom as the right operand of `**`
const_power_AtomRight(toks, i) ==
    Alt(PowExpr(toks, i, LAMBDA j : const_atom(toks, j)), const_atom(toks, i))

const_power(toks, i) ==
    Alt(PowExpr(toks, i, LAMBDA j : const_factor(toks, j)), const_atom(toks, i))

NameExpr(toks, i) ==
    AndThen(name_token(toks, i), LAMBDA t :
        Parsed(t.rest, t.span, [type |-> "Name", name |-> t.node.string]))

NumExpr(toks, i) ==
    AndThen(num_token(toks, i), LAMBDA t :
        Parsed(t.rest, t.span, [type |-> "Num", num |-> t.node.string]))

const_atom(toks, i) ==
    Alt(const_group(toks, i), Alt(NameExpr(toks, i), NumExpr(toks, i)))

const_group(toks, i) ==
    AndThen(token("OpenParen", toks, i), LAMBDA o_paren :
    AndThen(const_expr(toks, o_paren.rest), LAMBDA spanned_expr :
    AndThen(token("CloseParen", toks, spanned_expr.rest), LAMBDA c_paren :
        Parsed(c_paren.rest, FromPair(o_paren.span, c_paren.span), spanned_expr.node))))

----------------------------------------------------------------------------
(* State *)

VARIABLES
    input,          \* the source string
    lines,          \* the iterator lines_with_endings: offset of the next line
    line_start,     \* offsets of the current line in input
    line_end,
    line_pos,       \* parsing position relative to the current line
    result,         \* token list result
    parenlev,
    continued,
    indents,
    contstr_start,
    contstr_end_re,
    needcont,
    pc,             \* "next_line", "scan", "eof", "done", "filtered", "parsed"
    ret,            \* what tokenize returned
    parse_tokens,   \* what get_parse_tokens returned
    ast             \* what file_input returned

vars == << input, lines, line_start, line_end, line_pos, result, parenlev, continued,
           indents, contstr_start, contstr_end_re, needcont, pc, ret, parse_tokens, ast >>

\* the current line
line == SubSeq(input, line_start + 1, line_end)
line_len == line_end - line_start

NoAst == Failed(0)

\* the state of tokenize before its loop
TokenizeStart ==
    /\ lines = 0
    /\ line_start = 0
    /\ line_end = 0
    /\ line_pos = 0
    /\ result = << >>
    /\ parenlev = 0
    /\ continued = FALSE
    /\ indents = << 0 >>
    /\ contstr_start = None
    /\ contstr_end_re = None
    /\ needcont = FALSE
    /\ ret = NoResult

Init ==
    /\ input \in Sources
    /\ TokenizeStart
    /\ pc = "next_line"
    /\ parse_tokens = NoResult
    /\ ast = NoAst

\* `while line_pos < line_len`: scan on, or fetch the next line
AfterToken(p, len) == IF p < len THEN "scan" ELSE "next_line"

\* the next line of the iterator becomes the current line
FetchLine ==
    /\ lines < Len(input)
    /\ line_start' = lines
    /\ line_end' = LineEndFrom(input, lines)
    /\ lines' = LineEndFrom(input, lines)

NextLine == SubSeq(input, lines + 1, LineEndFrom(input, lines))

\* `if next.is_none() { break; }`
LoopExit ==
    /\ pc = "next_line"
    /\ lines >= Len(input)
    /\ pc' = "eof"
    /\ UNCHANGED << input, lines, line_start, line_end, line_pos, result, parenlev,
                    continued, indents, contstr_start, contstr_end_re, needcont, ret,
                    parse_tokens, ast >>

\* a line fetched while a string is open: `if let Some(..) = contstr_start`
ContinuedString ==
    /\ pc = "next_line"
    /\ contstr_start # None
    /\ FetchLine
    /\ LET l == NextLine
           tok_end == FindAt(Unwrap(contstr_end_re), l, 0)
       IN IF tok_end # -1
          THEN /\ line_pos' = tok_end
               /\ result' = Append(result, Token("Str", Unwrap(contstr_start), lines + tok_end))
               /\ contstr_start' = None
               /\ needcont' = FALSE
               /\ pc' = AfterToken(tok_end, Len(l))
          ELSE IF needcont /\ ~EndsWithBackslashNewline(l)
          THEN /\ line_pos' = 0
               /\ result' = Append(result, Token("ErrorToken", Unwrap(contstr_start),
                                                 LineEndFrom(input, lines)))
               /\ contstr_start' = None
               /\ pc' = "next_line"
               /\ UNCHANGED needcont
          ELSE /\ line_pos' = 0
               /\ pc' = "next_line"
               /\ UNCHANGED << result, contstr_start, needcont >>
    /\ UNCHANGED << input, parenlev, continued, indents, contstr_end_re, ret,
                    parse_tokens, ast >>

\* a line that starts a statement: `else if parenlev == 0 && !continued`
NewStatement ==
    /\ pc = "next_line"
    /\ contstr_start = None
    /\ UsizeIsZero(parenlev) /\ ~continued
    /\ FetchLine
    /\ LET l == NextLine
           m == MeasureIndent(l)
           rest_off == lines + m.line_pos
       IN /\ line_pos' = m.line_pos
          /\ IF m.line_pos = Len(l)
             THEN \* only indentation, and no line terminator: end of the input
                  /\ pc' = "eof"
                  /\ UNCHANGED << result, indents, ret >>
             ELSE IF IsBlankOrComment(l, m.line_pos)
             THEN /\ result' = result \o BlankLineTokens(l, lines, LineEndFrom(input, lines),
                                                         m.line_pos)
                  /\ pc' = "next_line"
                  /\ UNCHANGED << indents, ret >>
             ELSE IF UnindentMismatch(indents, m.column)
             THEN /\ ret' = Err(UNINDENT_MSG, UnindentOffset(lines, m.line_pos))
                  /\ pc' = "done"
                  /\ UNCHANGED << result, indents >>
             ELSE /\ indents' = PopIndents(PushIndent(indents, m.column), m.column)
                  /\ result' = result \o IndentTokens(indents, m.column, lines, rest_off)
                        \o DedentTokens(Len(PushIndent(indents, m.column))
                                          - Len(PopIndents(PushIndent(indents, m.column), m.column)),
                                        rest_off)
                  /\ pc' = AfterToken(m.line_pos, Len(l))
                  /\ UNCHANGED ret
    /\ UNCHANGED << input, parenlev, continued, contstr_start, contstr_end_re, needcont,
                    parse_tokens, ast >>

\* ContinuationLine with the indentation measured and pushed as NewStatement does
ContinuationLine_Measured ==
    /\ pc = "next_line"
    /\ contstr_start = None
    /\ ~(UsizeIsZero(parenlev) /\ ~continued)
    /\ FetchLine
    /\ continued' = FALSE
    /\ line_pos' = MeasureIndent(NextLine).line_pos
    /\ indents' = PushIndent(indents, MeasureIndent(NextLine).column)
    /\ result' = result \o IndentTokens(indents, MeasureIndent(NextLine).column, lines,
                                        lines + MeasureIndent(NextLine).line_pos)
    /\ pc' = AfterToken(MeasureIndent(NextLine).line_pos, Len(NextLine))
    /\ UNCHANGED << input, parenlev, contstr_start, contstr_end_re,
                    needcont, ret, parse_tokens, ast >>

\* a line inside brackets or after a backslash: `else { continued = false; }`
ContinuationLine ==
    /\ pc = "next_line"
    /\ contstr_start = None
    /\ ~(UsizeIsZero(parenlev) /\ ~continued)
    /\ FetchLine
    /\ continued' = FALSE
    /\ line_pos' = 0
    /\ pc' = "scan"
    /\ UNCHANGED << input, result, parenlev, indents, contstr_start, contstr_end_re,
                    needcont, ret, parse_tokens, ast >>

----------------------------------------------------------------------------
(* tokenize: one iteration of `while line_pos < line_len` *)

ScanFrame == UNCHANGED << input, lines, line_start, line_end, ret, parse_tokens, ast >>

\* ScanErrorToken with the ErrorToken spanned to the end of the line
ScanErrorToken_ToLineEnd ==
    /\ pc = "scan"
    /\ TokClass(line, line_pos) = "error"
    /\ result' = Append(result, Token("ErrorToken", line_start + line_pos, line_end))
    /\ line_pos' = line_pos + 1
    /\ pc' = AfterToken(line_pos + 1, line_len)
    /\ ScanFrame
    /\ UNCHANGED << parenlev, continued, indents, contstr_start, contstr_end_re, needcont >>

\* no pseudo-token at the position: a one-byte ErrorToken
ScanErrorToken ==
    /\ pc = "scan"
    /\ TokClass(line, line_pos) = "error"
    /\ result' = Append(result, Token("ErrorToken", line_start + line_pos,
                                      line_start + line_pos + 1))
    /\ line_pos' = line_pos + 1
    /\ pc' = AfterToken(line_pos + 1, line_len)
    /\ ScanFrame
    /\ UNCHANGED << parenlev, continued, indents, contstr_start, contstr_end_re, needcont >>

\* `if tok_start == tok_end { continue; }`
ScanEmpty ==
    /\ pc = "scan"
    /\ TokClass(line, line_pos) = "empty"
    /\ line_pos' = PseudoMatch(line, line_pos).end
    /\ pc' = AfterToken(PseudoMatch(line, line_pos).end, line_len)
    /\ ScanFrame
    /\ UNCHANGED << result, parenlev, continued, indents, contstr_start, contstr_end_re,
                    needcont >>

\* a Num, a line terminator, a Comment or a Name
ScanPlain ==
    /\ pc = "scan"
    /\ TokClass(line, line_pos) = "plain"
    /\ result' = Append(result, PlainToken(line, PseudoMatch(line, line_pos), line_start,
                                           parenlev))
    /\ line_pos' = PseudoMatch(line, line_pos).end
    /\ pc' = AfterToken(PseudoMatch(line, line_pos).end, line_len)
    /\ ScanFrame
    /\ UNCHANGED << parenlev, continued, indents, contstr_start, contstr_end_re, needcont >>

\* the opener of a triple-quoted string
ScanTripleQuoted ==
    /\ pc = "scan"
    /\ TokClass(line, line_pos) = "triple"
    /\ LET m == PseudoMatch(line, line_pos)
           re == GetContstrEndRe(SubSeq(line, m.start + 1, m.end))
           e == FindAt(re, line, m.end)
       IN /\ contstr_end_re' = Some(re)
          /\ IF e # -1
             THEN /\ line_pos' = e
                  /\ result' = Append(result, Token("Str", line_start + m.start, line_start + e))
                  /\ pc' = AfterToken(e, line_len)
                  /\ UNCHANGED contstr_start
             ELSE /\ contstr_start' = Some(line_start + m.start)
                  /\ line_pos' = m.end
                  /\ pc' = "next_line"
                  /\ UNCHANGED result
    /\ ScanFrame
    /\ UNCHANGED << parenlev, continued, indents, needcont >>

\* a single-quoted string, complete or continued by a backslash
ScanSingleQuoted ==
    /\ pc = "scan"
    /\ TokClass(line, line_pos) = "single"
    /\ LET m == PseudoMatch(line, line_pos)
           tok_text == SubSeq(line, m.start + 1, m.end)
       IN /\ line_pos' = m.end
          /\ pc' = AfterToken(m.end, line_len)
          /\ IF Last(tok_text) = "\n"
             THEN /\ contstr_end_re' = Some(GetContstrEndRe(tok_text))
                  /\ contstr_start' = Some(line_start + m.start)
                  /\ needcont' = TRUE
                  /\ UNCHANGED result
             ELSE /\ result' = Append(result, Token("Str", line_start + m.start,
                                                    line_start + m.end))
                  /\ UNCHANGED << contstr_end_re, contstr_start, needcont >>
    /\ ScanFrame
    /\ UNCHANGED << parenlev, continued, indents >>

\* a backslash before the line terminator
ScanBackslash ==
    /\ pc = "scan"
    /\ TokClass(line, line_pos) = "backslash"
    /\ continued' = TRUE
    /\ line_pos' = PseudoMatch(line, line_pos).end
    /\ pc' = AfterToken(PseudoMatch(line, line_pos).end, line_len)
    /\ ScanFrame
    /\ UNCHANGED << result, parenlev, indents, contstr_start, contstr_end_re, needcont >>

IsOpener(c) == c \in {"(", "[", "{"}
IsCloser(c) == c \in {")", "]", "}"}

\* `parenlev += 1` / `parenlev -= 1` where the subtraction does not overflow
BracketLevel(plev, initial) ==
    IF IsOpener(initial) THEN plev + 1
    ELSE IF IsCloser(initial) THEN plev - 1
    ELSE plev

\* `parenlev -= 1` on a usize of 0 overflows
Underflows(plev, initial) == IsCloser(initial) /\ UsizeIsZero(plev)

\* an operator or punctuation token; brackets move parenlev
ScanPunct ==
    /\ pc = "scan"
    /\ TokClass(line, line_pos) = "punct"
    /\ LET m == PseudoMatch(line, line_pos)
           initial == At(line, m.start)
           pushed == Append(result, Token(PunctKind(initial), line_start + m.start,
                                          line_start + m.end))
       IN \/ \* no overflow
             /\ ~Underflows(parenlev, initial)
             /\ parenlev' = BracketLevel(parenlev, initial)
             /\ result' = pushed
             /\ line_pos' = m.end
             /\ pc' = AfterToken(m.end, line_len)
             /\ UNCHANGED ret
          \/ \* overflow, built without overflow checks: the counter wraps
             /\ Underflows(parenlev, initial)
             /\ parenlev' = BracketLevel(parenlev, initial)
             /\ result' = pushed
             /\ line_pos' = m.end
             /\ pc' = AfterToken(m.end, line_len)
             /\ UNCHANGED ret
          \/ \* overflow, built with overflow checks: the thread panics
             /\ Underflows(parenlev, initial)
             /\ ret' = Panic
             /\ pc' = "done"
             /\ UNCHANGED << parenlev, result, line_pos >>
    /\ UNCHANGED << input, lines, line_start, line_end, parse_tokens, ast >>
    /\ UNCHANGED << continued, indents, contstr_start, contstr_end_re, needcont >>

\* after the loop: the EOF errors, or the closing tokens
Finish ==
    /\ pc = "eof"
    /\ ret' = Termination(Len(input), contstr_start, continued, line, indents, result)
    /\ pc' = "done"
    /\ UNCHANGED << input, lines, line_start, line_end, line_pos, result, parenlev,
                    continued, indents, contstr_start, contstr_end_re, needcont,
                    parse_tokens, ast >>

----------------------------------------------------------------------------
(* get_parse_tokens *)

GetParseTokens ==
    /\ pc = "done"
    /\ ret.tag \in {"Ok", "Err"}
    /\ parse_tokens' = IF ret.tag = "Ok" THEN Ok(FilterTokens(ret.tokens)) ELSE ret
    /\ pc' = "filtered"
    /\ UNCHANGED << input, lines, line_start, line_end, line_pos, result, parenlev,
                    continued, indents, contstr_start, contstr_end_re, needcont, ret, ast >>

\* file_input on the filtered tokens
FileInput ==
    /\ pc = "filtered"
    /\ parse_tokens.tag = "Ok"
    /\ ast' = file_input(parse_tokens.tokens, 1)
    /\ pc' = "parsed"
    /\ UNCHANGED << input, lines, line_start, line_end, line_pos, result, parenlev,
                    continued, indents, contstr_start, contstr_end_re, needcont, ret,
                    parse_tokens >>

Tokenize ==
    \/ LoopExit
    \/ ContinuedString
    \/ NewStatement
    \/ ContinuationLine
    \/ ScanErrorToken
    \/ ScanEmpty
    \/ ScanPlain
    \/ ScanTripleQuoted
    \/ ScanSingleQuoted
    \/ ScanBackslash
    \/ ScanPunct
    \/ Finish

Next == Tokenize \/ GetParseTokens \/ FileInput

Spec == Init /\ [][Next]_vars

----------------------------------------------------------------------------
(* file_input on token lists that need not come from a source text *)

\* longest token list over all of Lexemes
MaxToks == 3

Lexemes ==
    {"import", "from", "as", "contract", "event", "x", "Dot", "Ellipsis", "Comma",
     "Colon", "Star", "OpenParen", "CloseParen", "Newline", "Indent", "Dedent",
     "EndMarker", "ErrorToken"}

LexemeName(lx) ==
    CASE lx = "import" -> import_kw
      [] lx = "from" -> from_kw
      [] lx = "as" -> as_kw
      [] lx = "contract" -> contract_kw
      [] lx = "event" -> event_kw
      [] lx = "x" -> << "x" >>
      [] OTHER -> << >>

\* the bytes a token of the lexeme covers: Dedent and EndMarker are virtual
LexemeWidth(lx) == IF lx \in {"Dedent", "EndMarker"} THEN 0 ELSE 1

RECURSIVE WidthBefore(_, _)
WidthBefore(lxs, k) ==
    IF k <= 1 THEN 0 ELSE WidthBefore(lxs, k - 1) + LexemeWidth(lxs[k - 1])

\* the token list of a lexeme list, each token starting where the last ended
TokensOf(lxs) ==
    [k \in 1..Len(lxs) |->
        [kind |-> IF LexemeName(lxs[k]) # << >> THEN "Name" ELSE lxs[k],
         string |-> LexemeName(lxs[k]),
         span |-> Span(WidthBefore(lxs, k), WidthBefore(lxs, k) + LexemeWidth(lxs[k]))]]

\* modules of the grammar, one per production
Modules ==
    { << "EndMarker" >>,
      << "import", "x", "Newline", "EndMarker" >>,
      << "import", "x", "Dot", "x", "as", "x", "Comma", "x", "Newline", "EndMarker" >>,
      << "from", "Dot", "import", "Star", "Newline", "EndMarker" >>,
      << "from", "Ellipsis", "Dot", "x", "Dot", "x", "import", "x", "as", "x", "Comma",
         "Newline", "EndMarker" >>,
      << "from", "x", "import", "OpenParen", "x", "Comma", "x", "as", "x", "Comma",
         "CloseParen", "Newline", "import", "x", "Newline", "EndMarker" >>,
      << "contract", "x", "Colon", "Newline", "Indent",
         "event", "x", "Colon", "Newline", "Indent",
         "x", "Colon", "x", "Newline", "x", "Colon", "x", "Newline",
         "Dedent", "Dedent", "EndMarker" >> }

ReplaceAt(q, k, lx) == [q EXCEPT ![k] = lx]
InsertAt(q, k, lx) == SubSeq(q, 1, k - 1) \o << lx >> \o SubSeq(q, k, Len(q))
DeleteAt(q, k) == SubSeq(q, 1, k - 1) \o SubSeq(q, k + 1, Len(q))

\* a module of Modules with one lexeme replaced, inserted or deleted
EditedModules ==
    UNION { {ReplaceAt(q, k, lx) : k \in 1..Len(q), lx \in Lexemes}
              \cup {InsertAt(q, k, lx) : k \in 1..Len(q), lx \in Lexemes}
              \cup {DeleteAt(q, k) : k \in 1..Len(q)} : q \in Modules }

\* contracts and events without a body
EmptyBodies ==
    { << "contract", "x", "Colon", "Newline", "Indent", "Dedent", "EndMarker" >>,
      << "contract", "x", "Colon", "Newline", "EndMarker" >>,
      << "contract", "x", "Colon", "Newline", "Indent",
         "event", "x", "Colon", "Newline", "Indent", "Dedent", "Dedent", "EndMarker" >>,
      << "contract", "x", "Colon", "Newline", "Indent",
         "event", "x", "Colon", "Newline", "Dedent", "EndMarker" >> }

LexemeLists == SeqsUpTo(Lexemes, MaxToks) \cup Modules \cup EditedModules \cup EmptyBodies

InitParse ==
    /\ input = << >>
    /\ TokenizeStart
    /\ pc = "filtered"
    /\ parse_tokens \in {Ok(TokensOf(lxs)) : lxs \in LexemeLists}
    /\ ast = NoAst

NextParse == FileInput

SpecParse == InitParse /\ [][NextParse]_vars

----------------------------------------------------------------------------
(* const_expr and file_input on token lists *)

\* longest token list over all of ConstLexemes
MaxConstToks == 3
\* most operands of a chain of binary operators
MaxOperands == 4
\* longest token list of operands, `**` and unary operators
MaxPowToks == 5

ConstLexemes ==
    {"x", "2", "Plus", "Minus", "Star", "Slash", "Percent", "StarStar", "Tilde",
     "OpenParen", "CloseParen"}

Operands == {"x", "2"}
ChainOperators == {"Plus", "Minus", "Star", "Slash", "Percent"}

\* x1 op x2 op ... xn
RECURSIVE Chains(_)
Chains(n) ==
    IF n = 1 THEN {<< a >> : a \in Operands}
    ELSE {c \o << op, a >> : c \in Chains(n - 1), op \in ChainOperators, a \in Operands}

ChainLists == UNION {Chains(n) : n \in 1..MaxOperands}

PowLists == SeqsUpTo(Operands \cup {"StarStar", "Plus", "Minus", "Tilde"}, MaxPowToks)

\* a chain in parentheses, alone or as a left operand
GroupLists ==
    {<< "OpenParen" >> \o c \o << "CloseParen" >> \o t :
        c \in ChainLists, t \in {<< >>, << "Star", "x" >>, << "StarStar", "2" >>}}

ConstLists == SeqsUpTo(ConstLexemes, MaxConstToks) \cup ChainLists \cup PowLists \cup GroupLists

\* the token list of a lexeme list of constant expressions
ConstTokensOf(lxs) ==
    [k \in 1..Len(lxs) |->
        [kind |-> IF lxs[k] = "x" THEN "Name" ELSE IF lxs[k] = "2" THEN "Num" ELSE lxs[k],
         string |-> IF lxs[k] \in Operands THEN << lxs[k] >> ELSE << >>,
         span |-> Span(WidthBefore(lxs, k), WidthBefore(lxs, k) + LexemeWidth(lxs[k]))]]

InitAst ==
    /\ input = << >>
    /\ TokenizeStart
    /\ pc = "filtered"
    /\ parse_tokens \in {Ok(ConstTokensOf(lxs)) : lxs \in ConstLists}
                          \cup {Ok(TokensOf(lxs)) : lxs \in Modules \cup EditedModules}
    /\ ast = NoAst

\* const_expr on the tokens
ConstExpr ==
    /\ pc = "filtered"
    /\ parse_tokens.tag = "Ok"
    /\ ast' = const_expr(parse_tokens.tokens, 1)
    /\ pc' = "const_parsed"
    /\ UNCHANGED << input, lines, line_start, line_end, line_pos, result, parenlev,
                    continued, indents, contstr_start, contstr_end_re, needcont, ret,
                    parse_tokens >>

NextAst == ConstExpr \/ FileInput

SpecAst == InitAst /\ [][NextAst]_vars

----------------------------------------------------------------------------
(* Properties *)

KindCount(toks, n, kind) == Cardinality({k \in 1..n : toks[k].kind = kind})
HasKind(toks, kind) == \E k \in 1..Len(toks) : toks[k].kind = kind

\* no prefix holds more Dedents than Indents, and the whole list as many
IndentsBalanced(toks) ==
    /\ \A n \in 0..Len(toks) : KindCount(toks, n, "Dedent") <= KindCount(toks, n, "Indent")
    /\ KindCount(toks, Len(toks), "Dedent") = KindCount(toks, Len(toks), "Indent")

\* C1: on Ok the Indent and Dedent tokens are balanced, prefix by prefix and
\* in total, and EndMarker is the last token and occurs once.
C1_BalancedAndEndMarker ==
    ret.tag = "Ok" =>
        /\ IndentsBalanced(ret.tokens)
        /\ Len(ret.tokens) > 0
        /\ Last(ret.tokens).kind = "EndMarker"
        /\ KindCount(ret.tokens, Len(ret.tokens), "EndMarker") = 1

\* an Ok result with a Dedent in the middle of the source and one at its end
C1_Witness ==
    /\ ret.tag = "Ok"
    /\ KindCount(ret.tokens, Len(ret.tokens), "Indent") >= 2
    /\ \E k \in 1..Len(ret.tokens) - 1 :
          ret.tokens[k].kind = "Dedent" /\ ret.tokens[k + 1].kind = "Name"
    /\ ret.tokens[Len(ret.tokens) - 1].kind = "Dedent"

\* C2: whenever tokenize returns Ok, parenlev is 0.
C2_ParenlevZeroOnOk == ret.tag = "Ok" => UsizeIsZero(parenlev)

\* C3: parenlev never goes below zero: a closer scanned at parenlev 0 neither
\* wraps the counter nor aborts.
C3_NoUnderflow == ret.tag # "Panic" /\ ~UsizeWrapped(parenlev)

\* C4: every token of the output lies within the source, start <= end, and
\* each token ends no later than the next one starts.
C4_SpansOrdered ==
    ret.tag = "Ok" =>
        /\ \A k \in 1..Len(ret.tokens) :
              /\ 0 <= ret.tokens[k].span.start
              /\ ret.tokens[k].span.start <= ret.tokens[k].span.end
              /\ ret.tokens[k].span.end <= Len(input)
        /\ \A k \in 1..Len(ret.tokens) - 1 :
              ret.tokens[k].span.end <= ret.tokens[k + 1].span.start

\* an Ok result with a Str that runs over a line end, followed by the
\* zero-length Newline and the EndMarker at the end of the source
C4_Witness ==
    /\ ret.tag = "Ok"
    /\ Len(ret.tokens) >= 3
    /\ \E k \in 1..Len(ret.tokens) :
          /\ ret.tokens[k].kind = "Str"
          /\ \E j \in ret.tokens[k].span.start..(ret.tokens[k].span.end - 1) :
                At(input, j) = "\n"
    /\ ret.tokens[Len(ret.tokens) - 1].kind = "Newline"
    /\ ret.tokens[Len(ret.tokens) - 1].span = Span(Len(input), Len(input))

\* the next line starts a logical line and is neither blank nor comment-only
LogicalLineStart ==
    /\ pc = "next_line"
    /\ lines < Len(input)
    /\ contstr_start = None
    /\ UsizeIsZero(parenlev)
    /\ ~continued
    /\ MeasureIndent(NextLine).line_pos < Len(NextLine)
    /\ ~IsBlankOrComment(NextLine, MeasureIndent(NextLine).line_pos)

UnindentError(r) == r.tag = "Err" /\ r.msg = UNINDENT_MSG

\* C5: a step of tokenize fails with the unindent error exactly when it is at
\* a logical line start whose measured column is below the top of the
\* indentation stack and equal to no entry of it; the failure carries no tokens.
C5_UnindentIff ==
    [][ /\ (ret.tag = "None" /\ UnindentError(ret'))
            <=> /\ LogicalLineStart
                /\ MeasureIndent(NextLine).column < Last(indents)
                /\ ~Contains(indents, MeasureIndent(NextLine).column)
        /\ UnindentError(ret') => ret'.tokens = << >>
      ]_vars

C5_Witness ==
    /\ UnindentError(ret)
    /\ Len(indents) >= 2
    /\ Len(result) >= 3
    /\ ret.tokens = << >>

\* C6 as stated: the unindent error's offset is the index of the last
\* indentation character of the offending line, the one before its first
\* character that is not white space.
C6_OffsetAtLastIndentChar ==
    UnindentError(ret) =>
        /\ ret.offset + 1 < Len(input)
        /\ IsIndentChar(At(input, ret.offset))
        /\ ~IsIndentChar(At(input, ret.offset + 1))

\* C6 amended: the unindent error's offset is the index of the offending
\* line's first character that is not white space, after at least one
\* indentation character.
C6_OffsetAtFirstNonWhitespace ==
    UnindentError(ret) =>
        /\ ret.offset < Len(input)
        /\ ~IsIndentChar(At(input, ret.offset))
        /\ ret.offset > line_start
        /\ \A j \in line_start..(ret.offset - 1) : IsIndentChar(At(input, j))
        /\ line_start = 0 \/ At(input, line_start - 1) = "\n"

C6_Witness ==
    /\ UnindentError(ret)
    /\ line_start > 0
    /\ ret.offset >= line_start + 2

\* C7: a string still open after the last line makes tokenize return the
\* error "EOF in multi-line string" at len(source), with no tokens.
C7_EofInString ==
    (pc \notin {"next_line", "scan", "eof"} /\ contstr_start # None) =>
        ret = Err(EOF_STRING_MSG, Len(input))

\* the error returned after tokens were produced before the string opened
C7_Witness ==
    /\ ret = Err(EOF_STRING_MSG, Len(input))
    /\ contstr_start # None
    /\ Len(result) >= 2

FinalLineContinued ==
    Len(input) >= 2 /\ At(input, Len(input) - 2) = "\\" /\ At(input, Len(input) - 1) = "\n"

\* C8: continued still set after the last line, with no string open, makes
\* tokenize return "EOF in multi-line statement" at len(source); scanning a
\* next line clears continued, so the error means that the final line ends
\* with the continuation.
C8_EofInStatement ==
    /\ [](/\ (pc \notin {"next_line", "scan", "eof"} /\ continued /\ contstr_start = None)
              => ret = Err(EOF_STATEMENT_MSG, Len(input))
          /\ (ret.tag = "Err" /\ ret.msg = EOF_STATEMENT_MSG)
              => (ret.offset = Len(input) /\ continued /\ FinalLineContinued))
    /\ [][(pc = "next_line" /\ continued /\ lines < Len(input)) => ~continued']_vars

\* a continuation in the middle of the source that was cleared, and the error
\* for the one on the final line
C8_Witness ==
    /\ ret = Err(EOF_STATEMENT_MSG, Len(input))
    /\ \E j \in 0..(Len(input) - 4) : At(input, j) = "\\" /\ At(input, j + 1) = "\n"

\* toks without the tokens whose kind is in kinds, in their order
RECURSIVE Without(_, _)
Without(toks, kinds) ==
    IF toks = << >> THEN << >>
    ELSE IF Head(toks).kind \in kinds THEN Without(Tail(toks), kinds)
    ELSE << Head(toks) >> \o Without(Tail(toks), kinds)

\* C9: get_parse_tokens returns the tokens of tokenize without the Comment
\* and WhitespaceNewline tokens and with every other token, in order; an
\* error of tokenize is returned unchanged.
C9_FilterExact ==
    pc \in {"filtered", "parsed"} =>
        /\ ret.tag = "Ok" =>
              /\ parse_tokens.tag = "Ok"
              /\ parse_tokens.tokens = Without(ret.tokens, {"Comment", "WhitespaceNewline"})
              /\ \A kind \in {"Newline", "Indent", "Dedent", "EndMarker", "ErrorToken"} :
                    KindCount(parse_tokens.tokens, Len(parse_tokens.tokens), kind)
                        = KindCount(ret.tokens, Len(ret.tokens), kind)
        /\ ret.tag = "Err" => parse_tokens = ret

C9_Witness ==
    /\ pc = "filtered"
    /\ ret.tag = "Ok"
    /\ HasKind(ret.tokens, "Comment")
    /\ HasKind(ret.tokens, "WhitespaceNewline")
    /\ HasKind(parse_tokens.tokens, "Indent")
    /\ HasKind(parse_tokens.tokens, "Newline")
    /\ Len(parse_tokens.tokens) = Len(ret.tokens) - 2

\* EndMarker is the last token and occurs nowhere else
EndsInEndMarker(toks) ==
    /\ Len(toks) > 0
    /\ \A k \in 1..Len(toks) : toks[k].kind = "EndMarker" <=> k = Len(toks)

\* C10: file_input fails on every token list that ends in its only EndMarker
\* and holds an ErrorToken.
C10_ErrorTokenNeverParsed ==
    (pc = "parsed" /\ EndsInEndMarker(parse_tokens.tokens)
        /\ HasKind(parse_tokens.tokens, "ErrorToken")) => ~ast.ok

\* a module that parses without its ErrorToken and fails with it
C10_Witness ==
    /\ pc = "parsed"
    /\ EndsInEndMarker(parse_tokens.tokens)
    /\ ~ast.ok
    /\ \E k \in 1..Len(parse_tokens.tokens) :
          /\ parse_tokens.tokens[k].kind = "ErrorToken"
          /\ file_input(DeleteAt(parse_tokens.tokens, k), 1).ok
          /\ Len(parse_tokens.tokens) >= 5

----------------------------------------------------------------------------
(* The grammar of file_input as the specification writes it: expressions   *)
(* over tokens, matched with every choice and every repetition count       *)
(* tried, not ordered and not greedy.                                      *)

G_Tok(kind) == [op |-> "tok", kind |-> kind, text |-> << >>, args |-> << >>]
G_Kw(text) == [op |-> "kw", kind |-> "Name", text |-> text, args |-> << >>]
G_Seq(args) == [op |-> "seq", kind |-> "", text |-> << >>, args |-> args]
G_Alt(args) == [op |-> "alt", kind |-> "", text |-> << >>, args |-> args]
G_Star(g) == [op |-> "star", kind |-> "", text |-> << >>, args |-> << g >>]
G_Plus(g) == G_Seq(<< g, G_Star(g) >>)
G_Opt(g) == G_Alt(<< g, G_Seq(<< >>) >>)

G_NAME == G_Tok("Name")
G_dotted_name == G_Seq(<< G_NAME, G_Star(G_Seq(<< G_Tok("Dot"), G_NAME >>)) >>)
G_dots_to_int == G_Plus(G_Alt(<< G_Tok("Dot"), G_Tok("Ellipsis") >>))
G_alias == G_Opt(G_Seq(<< G_Kw(as_kw), G_NAME >>))
G_from_import_name == G_Seq(<< G_NAME, G_alias >>)
G_from_import_names_list ==
    G_Seq(<< G_from_import_name,
             G_Star(G_Seq(<< G_Tok("Comma"), G_from_import_name >>)),
             G_Opt(G_Tok("Comma")) >>)
G_from_import_names ==
    G_Alt(<< G_Tok("Star"),
             G_Seq(<< G_Tok("OpenParen"), G_from_import_names_list, G_Tok("CloseParen") >>),
             G_from_import_names_list >>)
G_from_import ==
    G_Seq(<< G_Kw(from_kw),
             G_Alt(<< G_dots_to_int, G_Seq(<< G_Opt(G_dots_to_int), G_dotted_name >>) >>),
             G_Kw(import_kw),
             G_from_import_names >>)
G_simple_import_name == G_Seq(<< G_dotted_name, G_alias >>)
G_simple_import ==
    G_Seq(<< G_Kw(import_kw), G_simple_import_name,
             G_Star(G_Seq(<< G_Tok("Comma"), G_simple_import_name >>)) >>)
G_import_stmt == G_Seq(<< G_Alt(<< G_simple_import, G_from_import >>), G_Tok("Newline") >>)
G_event_field == G_Seq(<< G_NAME, G_Tok("Colon"), G_NAME, G_Tok("Newline") >>)
G_event_def ==
    G_Seq(<< G_Kw(event_kw), G_NAME, G_Tok("Colon"), G_Tok("Newline"), G_Tok("Indent"),
             G_Plus(G_event_field), G_Tok("Dedent") >>)
G_contract_def ==
    G_Seq(<< G_Kw(contract_kw), G_NAME, G_Tok("Colon"), G_Tok("Newline"), G_Tok("Indent"),
             G_Plus(G_event_def), G_Tok("Dedent") >>)
G_module_stmt == G_Alt(<< G_import_stmt, G_contract_def >>)
G_file_input ==
    G_Alt(<< G_Tok("EndMarker"), G_Seq(<< G_Plus(G_module_stmt), G_Tok("EndMarker") >>) >>)

RECURSIVE G_Ends(_, _, _)
RECURSIVE G_SeqEnds(_, _, _)
RECURSIVE G_StarEnds(_, _, _, _)

\* the indices j such that the tokens from i up to j, j excluded, derive from g
G_Ends(g, toks, i) ==
    CASE g.op = "tok" ->
            IF i <= Len(toks) /\ toks[i].kind = g.kind THEN {i + 1} ELSE {}
      [] g.op = "kw" ->
            IF i <= Len(toks) /\ toks[i].kind = "Name" /\ toks[i].string = g.text
            THEN {i + 1} ELSE {}
      [] g.op = "seq" -> G_SeqEnds(g.args, toks, {i})
      [] g.op = "alt" -> UNION {G_Ends(g.args[k], toks, i) : k \in 1..Len(g.args)}
      [] g.op = "star" -> G_StarEnds(g.args[1], toks, {i}, {i})

G_SeqEnds(args, toks, from) ==
    IF args = << >> THEN from
    ELSE G_SeqEnds(Tail(args), toks, UNION {G_Ends(Head(args), toks, j) : j \in from})

G_StarEnds(g, toks, frontier, seen) ==
    IF frontier \subseteq {} THEN seen
    ELSE G_StarEnds(g, toks,
                    (UNION {G_Ends(g, toks, j) : j \in frontier}) \ seen,
                    seen \cup UNION {G_Ends(g, toks, j) : j \in frontier})

\* C11: file_input succeeds exactly on the token lists with a prefix that
\* derives from the grammar, and what it consumed is such a prefix; on a list
\* that ends in its only EndMarker it succeeds exactly when the whole list
\* derives from the grammar.
C11_ParserIsGrammar ==
    pc = "parsed" =>
        /\ ast.ok <=> G_Ends(G_file_input, parse_tokens.tokens, 1) # {}
        /\ ast.ok => ast.rest \in G_Ends(G_file_input, parse_tokens.tokens, 1)
        /\ EndsInEndMarker(parse_tokens.tokens) =>
              (ast.ok <=> Len(parse_tokens.tokens) + 1
                              \in G_Ends(G_file_input, parse_tokens.tokens, 1))

IsDots(t) == t.kind \in {"Dot", "Ellipsis"}

\* the index after the run of Dot and Ellipsis tokens that starts at i
RECURSIVE RunEnd(_, _)
RunEnd(toks, i) == IF i <= Len(toks) /\ IsDots(toks[i]) THEN RunEnd(toks, i + 1) ELSE i

KindsIn(toks, i, e, kind) == Cardinality({j \in i..(e - 1) : toks[j].kind = kind})

\* r is the whole run from i to e with the value k + 3m - 1
DotsResultIs(r, toks, i, e) ==
    /\ r.ok
    /\ r.rest = e
    /\ r.node = KindsIn(toks, i, e, "Dot") + 3 * KindsIn(toks, i, e, "Ellipsis") - 1
    /\ r.node >= 0
    /\ r.span = Span(toks[i].span.start, toks[e - 1].span.end)

\* C12: at every run of k Dot and m Ellipsis tokens, in any order, dots_to_int
\* consumes the whole run, returns k + 3m - 1 >= 0 and the span from the
\* first to the last token of the run; where no run starts it fails.
C12_DotsToInt ==
    \A i \in 1..Len(parse_tokens.tokens) :
        IF IsDots(parse_tokens.tokens[i])
        THEN DotsResultIs(dots_to_int(parse_tokens.tokens, i), parse_tokens.tokens, i,
                          RunEnd(parse_tokens.tokens, i))
        ELSE ~dots_to_int(parse_tokens.tokens, i).ok

\* a from-import parsed with the parent level 3 of the run Ellipsis Dot
C12_Witness ==
    /\ pc = "parsed"
    /\ ast.ok
    /\ ast.node.body # << >>
    /\ ast.node.body[1].node.type = "FromImport"
    /\ ast.node.body[1].node.path.node.type = "Relative"
    /\ ast.node.body[1].node.path.node.parent_level = 3
    /\ \E i \in 1..Len(parse_tokens.tokens) - 1 :
          /\ parse_tokens.tokens[i].kind = "Ellipsis"
          /\ parse_tokens.tokens[i + 1].kind = "Dot"
          /\ dots_to_int(parse_tokens.tokens, i).node = 3

----------------------------------------------------------------------------
(* The precedence and associativity of the specification, as trees built   *)
(* by splitting a token list at its last operator of the lowest level.     *)

KindsOf(toks) == [k \in 1..Len(toks) |-> toks[k].kind]

AdditiveKinds == {"Plus", "Minus"}
MultiplicativeKinds == {"Star", "Slash", "Percent"}
UnaryKinds == {"Plus", "Minus", "Tilde"}
OperandKinds == {"Name", "Num"}

R_Operator(kind) ==
    CASE kind = "Plus" -> "Add" [] kind = "Minus" -> "Sub" [] kind = "Star" -> "Mul"
      [] kind = "Slash" -> "Div" [] kind = "Percent" -> "Mod"

R_Unary(kind) ==
    CASE kind = "Plus" -> "UPlus" [] kind = "Minus" -> "UMinus" [] kind = "Tilde" -> "Invert"

R_Leaf(t) ==
    [node |-> IF t.kind = "Name" THEN [type |-> "Name", name |-> t.string]
              ELSE [type |-> "Num", num |-> t.string],
     span |-> t.span]

R_BinOp(left, op, right) ==
    [node |-> [type |-> "BinOp", left |-> left, op |-> op, right |-> right],
     span |-> Span(left.span.start, right.span.end)]

\* the last index in lo..hi of a token whose kind is in kinds, or 0
LastOf(toks, lo, hi, kinds) ==
    IF \E k \in lo..hi : toks[k].kind \in kinds
    THEN CHOOSE k \in lo..hi :
            /\ toks[k].kind \in kinds
            /\ \A j \in (k + 1)..hi : toks[j].kind \notin kinds
    ELSE 0

RECURSIVE R_Term(_, _, _)
R_TermAt(toks, lo, k) ==
    IF k = 0 THEN R_Leaf(toks[lo])
    ELSE R_BinOp(R_Term(toks, lo, k - 1), R_Operator(toks[k].kind), R_Leaf(toks[k + 1]))
R_Term(toks, lo, hi) == R_TermAt(toks, lo, LastOf(toks, lo, hi, MultiplicativeKinds))

RECURSIVE R_Expr(_, _, _)
R_ExprAt(toks, lo, hi, k) ==
    IF k = 0 THEN R_Term(toks, lo, hi)
    ELSE R_BinOp(R_Expr(toks, lo, k - 1), R_Operator(toks[k].kind), R_Term(toks, k + 1, hi))
R_Expr(toks, lo, hi) == R_ExprAt(toks, lo, hi, LastOf(toks, lo, hi, AdditiveKinds))

\* x1 op x2 op ... xn over the operators + - * / %
IsChain(toks) ==
    /\ Len(toks) % 2 = 1
    /\ \A k \in 1..Len(toks) :
          IF k % 2 = 1 THEN toks[k].kind \in OperandKinds
          ELSE toks[k].kind \in AdditiveKinds \cup MultiplicativeKinds

SameLevel(toks) ==
    \/ \A k \in 1..Len(toks) : toks[k].kind \notin MultiplicativeKinds
    \/ \A k \in 1..Len(toks) : toks[k].kind \notin AdditiveKinds

\* every right operand is a leaf
RECURSIVE LeftNested(_)
LeftNested(e) ==
    e.node.type = "BinOp" => (e.node.right.node.type # "BinOp" /\ LeftNested(e.node.left))

\* C13: const_expr turns a chain x1 op x2 ... xn over + - * / % into the
\* tree in which * / % bind tighter than + - and operators of one level
\* nest to the left; a chain of one level is left-nested throughout.
C13_LeftAssociativePrecedence ==
    (pc = "const_parsed" /\ IsChain(parse_tokens.tokens)) =>
        /\ ast.ok
        /\ ast.rest = Len(parse_tokens.tokens) + 1
        /\ Spanned(ast) = R_Expr(parse_tokens.tokens, 1, Len(parse_tokens.tokens))
        /\ SameLevel(parse_tokens.tokens) => LeftNested(Spanned(ast))

\* a - b + c * d parsed as Add(Sub(a, b), Mul(c, d))
C13_Witness ==
    /\ pc = "const_parsed"
    /\ KindsOf(parse_tokens.tokens)
          = << "Name", "Minus", "Name", "Plus", "Name", "Star", "Name" >>
    /\ ast.ok
    /\ ast.node.op = "Add"
    /\ ast.node.left.node.op = "Sub"
    /\ ast.node.right.node.op = "Mul"

\* from i on: unary operators, then an operand, then nothing or `**` and the same
RECURSIVE IsFactor(_, _)
IsFactor(toks, i) ==
    /\ i <= Len(toks)
    /\ IF toks[i].kind \in UnaryKinds THEN IsFactor(toks, i + 1)
       ELSE /\ toks[i].kind \in OperandKinds
            /\ i = Len(toks) \/ (i + 1 <= Len(toks) /\ toks[i + 1].kind = "StarStar"
                                 /\ IsFactor(toks, i + 2))

RECURSIVE R_Factor(_, _)
R_Factor(toks, i) ==
    IF toks[i].kind \in UnaryKinds
    THEN [node |-> [type |-> "UnaryOp", op |-> R_Unary(toks[i].kind),
                    operand |-> R_Factor(toks, i + 1)],
          span |-> Span(toks[i].span.start, toks[Len(toks)].span.end)]
    ELSE IF i = Len(toks) THEN R_Leaf(toks[i])
    ELSE R_BinOp(R_Leaf(toks[i]), "Pow", R_Factor(toks, i + 2))

\* C14: `**` nests to the right with an atom on its left and a factor on its
\* right, and unary operators nest to the right around it: a**b**c is
\* Pow(a, Pow(b, c)), -a**b is UMinus(Pow(a, b)), 2**-3 is Pow(2, UMinus(3)).
C14_PowRightAssociative ==
    pc = "const_parsed" =>
        /\ IsFactor(parse_tokens.tokens, 1) =>
              /\ ast.ok
              /\ ast.rest = Len(parse_tokens.tokens) + 1
              /\ Spanned(ast) = R_Factor(parse_tokens.tokens, 1)
        /\ KindsOf(parse_tokens.tokens) = << "Name", "StarStar", "Name", "StarStar", "Name" >> =>
              /\ ast.node.type = "BinOp" /\ ast.node.op = "Pow"
              /\ ast.node.left.node.type = "Name"
              /\ ast.node.right.node.type = "BinOp" /\ ast.node.right.node.op = "Pow"
        /\ KindsOf(parse_tokens.tokens) = << "Minus", "Name", "StarStar", "Name" >> =>
              /\ ast.node.type = "UnaryOp" /\ ast.node.op = "UMinus"
              /\ ast.node.operand.node.type = "BinOp" /\ ast.node.operand.node.op = "Pow"
        /\ KindsOf(parse_tokens.tokens) = << "Num", "StarStar", "Minus", "Num" >> =>
              /\ ast.node.type = "BinOp" /\ ast.node.op = "Pow"
              /\ ast.node.left.node.type = "Num"
              /\ ast.node.right.node.type = "UnaryOp" /\ ast.node.right.node.op = "UMinus"

\* - a ** ~ b parsed as UMinus(Pow(a, Invert(b)))
C14_Witness ==
    /\ pc = "const_parsed"
    /\ KindsOf(parse_tokens.tokens) = << "Minus", "Name", "StarStar", "Tilde", "Name" >>
    /\ ast.ok
    /\ ast.node.type = "UnaryOp"
    /\ ast.node.op = "UMinus"
    /\ ast.node.operand.node.op = "Pow"
    /\ ast.node.operand.node.right.node.op = "Invert"

----------------------------------------------------------------------------
(* Spans of the AST *)

Covers(outer, inner) == outer.start <= inner.start /\ inner.end <= outer.end

\* every item of the list is covered by span
CoversAll(span, items) == \A k \in 1..Len(items) : Covers(span, items[k].span)

RECURSIVE ExprCovered(_)
ExprCovered(e) ==
    CASE e.node.type = "BinOp" ->
            /\ Covers(e.span, e.node.left.span) /\ ExprCovered(e.node.left)
            /\ Covers(e.span, e.node.right.span) /\ ExprCovered(e.node.right)
      [] e.node.type = "UnaryOp" ->
            Covers(e.span, e.node.operand.span) /\ ExprCovered(e.node.operand)
      [] OTHER -> TRUE

EventCovered(ev) == CoversAll(ev.span, ev.node.fields)

StmtCovered(st) ==
    CASE st.node.type = "SimpleImport" -> CoversAll(st.span, st.node.names)
      [] st.node.type = "FromImport" ->
            /\ Covers(st.span, st.node.path.span)
            /\ Covers(st.span, st.node.names.span)
            /\ CoversAll(st.node.names.span, st.node.names.node.names)
      [] st.node.type = "ContractDef" ->
            /\ CoversAll(st.span, st.node.body)
            /\ \A k \in 1..Len(st.node.body) : EventCovered(st.node.body[k])

ModuleCovered(m) ==
    /\ CoversAll(m.span, m.node.body)
    /\ \A k \in 1..Len(m.node.body) : StmtCovered(m.node.body[k])

\* C15: in every AST that file_input or const_expr returns, the span of each
\* node covers the span of each of its children.
C15_SpanCoversChildren ==
    /\ (pc = "parsed" /\ ast.ok) => ModuleCovered(Spanned(ast))
    /\ (pc = "const_parsed" /\ ast.ok) => ExprCovered(Spanned(ast))

\* a from-import with a relative path and a list of names in parentheses
C15_Witness ==
    /\ pc = "parsed"
    /\ ast.ok
    /\ Len(ast.node.body) >= 2
    /\ ast.node.body[1].node.type = "FromImport"
    /\ ast.node.body[1].node.names.node.type = "List"
    /\ Len(ast.node.body[1].node.names.node.names) >= 2
    /\ ast.node.body[1].node.names.span.end - ast.node.body[1].node.names.span.start
          > Len(ast.node.body[1].node.names.node.names)
    /\ ModuleCovered(Spanned(ast))

\* the result r of a production on the slice i covers its first and its last
\* consumed token
CoversConsumed(r, toks, i) ==
    r.ok => /\ r.span.start <= toks[i].span.start
            /\ r.span.end >= toks[r.rest - 1].span.end

\* C16 as stated: the span of the node of each production (module, import
\* statement, contract_def, event_def, event_field) covers the first and the
\* last token the production consumed, terminating Newline, Dedent and
\* EndMarker included.
C16_SpanCoversConsumedTokens ==
    pc = "parsed" =>
        /\ CoversConsumed(ast, parse_tokens.tokens, 1)
        /\ \A i \in 1..Len(parse_tokens.tokens) :
              /\ CoversConsumed(import_stmt(parse_tokens.tokens, i), parse_tokens.tokens, i)
              /\ CoversConsumed(contract_def(parse_tokens.tokens, i), parse_tokens.tokens, i)
              /\ CoversConsumed(event_def(parse_tokens.tokens, i), parse_tokens.tokens, i)
              /\ CoversConsumed(event_field(parse_tokens.tokens, i), parse_tokens.tokens, i)

IsTerminator(t) == t.kind \in {"Newline", "Dedent", "EndMarker"}

\* the last index in lo..hi of a token that is no terminator
LastContent(toks, lo, hi) ==
    CHOOSE k \in lo..hi :
        /\ ~IsTerminator(toks[k])
        /\ \A j \in (k + 1)..hi : IsTerminator(toks[j])

\* the result r of a production on the slice i is spanned from its first
\* consumed token to its last consumed token that is no terminator
SpansContent(r, toks, i) ==
    r.ok => r.span = Span(toks[i].span.start,
                          toks[LastContent(toks, i, r.rest - 1)].span.end)

\* C16 amended: the span of the node of each production runs from the start
\* of the first consumed token to the end of the last consumed token that is
\* not a terminating Newline, Dedent or EndMarker; the empty module has the
\* span of its EndMarker.
C16_SpanCoversContentTokens ==
    pc = "parsed" =>
        /\ IF parse_tokens.tokens # << >> /\ parse_tokens.tokens[1].kind = "EndMarker"
           THEN ast.ok /\ ast.span = parse_tokens.tokens[1].span
           ELSE SpansContent(ast, parse_tokens.tokens, 1)
        /\ \A i \in 1..Len(parse_tokens.tokens) :
              /\ SpansContent(import_stmt(parse_tokens.tokens, i), parse_tokens.tokens, i)
              /\ SpansContent(contract_def(parse_tokens.tokens, i), parse_tokens.tokens, i)
              /\ SpansContent(event_def(parse_tokens.tokens, i), parse_tokens.tokens, i)
              /\ SpansContent(event_field(parse_tokens.tokens, i), parse_tokens.tokens, i)

\* a contract with an event parsed: the module's span ends before the
\* Newline and the Dedents it consumed
C16_Witness ==
    /\ pc = "parsed"
    /\ ast.ok
    /\ ast.node.body # << >>
    /\ ast.node.body[1].node.type = "ContractDef"
    /\ Len(ast.node.body[1].node.body[1].node.fields) >= 2
    /\ ast.span.end < parse_tokens.tokens[ast.rest - 1].span.end
    /\ ast.span.start = 0

RECURSIVE G_Prefix(_, _, _)
RECURSIVE G_SeqPrefix(_, _, _)

\* the tokens from i to the end of toks begin a sentence of g
G_Prefix(g, toks, i) ==
    CASE g.op \in {"tok", "kw"} -> i > Len(toks) \/ (i = Len(toks) /\ G_Ends(g, toks, i) # {})
      [] g.op = "seq" -> G_SeqPrefix(g.args, toks, i)
      [] g.op = "alt" -> \E k \in 1..Len(g.args) : G_Prefix(g.args[k], toks, i)
      [] g.op = "star" -> \/ i > Len(toks)
                          \/ \E j \in G_Ends(g, toks, i) : G_Prefix(g.args[1], toks, j)

G_SeqPrefix(args, toks, i) ==
    IF args = << >> THEN i > Len(toks)
    ELSE \/ G_Prefix(Head(args), toks, i)
         \/ \E j \in G_Ends(Head(args), toks, i) : G_SeqPrefix(Tail(args), toks, j)

\* the tokens before k, and the token at k, begin a sentence of file_input
Viable(toks, k) == G_Prefix(G_file_input, SubSeq(toks, 1, k), 1)

\* the token at which toks stops matching the grammar
HasMismatch(toks) == \E k \in 1..Len(toks) : ~Viable(toks, k)

FirstMismatch(toks) ==
    CHOOSE k \in 1..Len(toks) : ~Viable(toks, k) /\ \A j \in 1..(k - 1) : Viable(toks, j)

\* C17: when file_input fails on a token list that ends in its EndMarker and
\* does not derive from the grammar, the failure is located at the first
\* token at which the list stops matching the grammar.
C17_FailureAtFirstMismatch ==
    (/\ pc = "parsed"
     /\ ~ast.ok
     /\ EndsInEndMarker(parse_tokens.tokens)
     /\ HasMismatch(parse_tokens.tokens))
        => ast.rest = FirstMismatch(parse_tokens.tokens)

\* file_input on the tokens from i, the first of them an EndMarker, returns
\* the module without statements spanned as that EndMarker
EmptyModuleAt(r, toks, i) ==
    /\ r.ok
    /\ r.rest = i + 1
    /\ r.node = [body |-> << >>]
    /\ r.span = toks[i].span

\* C18: tokenize of the empty source returns exactly EndMarker 0..0, and
\* file_input on tokens whose first is an EndMarker returns the module
\* without statements, spanned as that EndMarker.
C18_EmptyInput ==
    /\ (input = << >> /\ pc \in {"done", "filtered", "parsed"})
          => ret = Ok(<< Token("EndMarker", 0, 0) >>)
    /\ (pc \in {"filtered", "parsed"} /\ parse_tokens.tag = "Ok") =>
          \A i \in 1..Len(parse_tokens.tokens) :
              parse_tokens.tokens[i].kind = "EndMarker"
                  => EmptyModuleAt(file_input(parse_tokens.tokens, i), parse_tokens.tokens, i)
    /\ (pc = "parsed" /\ parse_tokens.tokens[1].kind = "EndMarker")
          => EmptyModuleAt(ast, parse_tokens.tokens, 1)

\* the empty source tokenized, filtered and parsed
C18_Witness ==
    /\ input = << >>
    /\ pc = "parsed"
    /\ ast.ok
    /\ ast.node.body = << >>
    /\ ast.span = Span(0, 0)
    /\ Len(ret.tokens) = 1

\* the leading characters of l drawn from space, tab and form-feed
RECURSIVE LeadingWs(_)
LeadingWs(l) ==
    IF l # << >> /\ Head(l) \in {" ", "\t", "\f"}
    THEN << Head(l) >> \o LeadingWs(Tail(l))
    ELSE << >>

\* the reference column of a run of leading characters
RECURSIVE RefColumn(_)
RefColumn(ws) ==
    IF ws = << >> THEN 0
    ELSE LET col == RefColumn(SubSeq(ws, 1, Len(ws) - 1)) IN
         CASE Last(ws) = " " -> col + 1
           [] Last(ws) = "\t" -> (col \div 8 + 1) * 8
           [] Last(ws) = "\f" -> 0

\* the tokens the step appends to result
NewTokens == SubSeq(result', Len(result) + 1, Len(result'))

\* the step measures the indentation of a line
MeasuresLine ==
    /\ pc = "next_line"
    /\ lines < Len(input)
    /\ contstr_start = None
    /\ UsizeIsZero(parenlev)
    /\ ~continued

\* C19: the step that measures a line stops after its leading spaces, tabs
\* and form-feeds; on a logical line that is accepted the column it leaves on
\* top of the indentation stack is the reference column of every prefix
\* folded up to the whole run, and a line whose reference column equals the
\* top of the stack appends no Indent and no Dedent, whatever its bytes.
C19_IndentMeasure ==
    [][ MeasuresLine =>
          /\ line_pos' = Len(LeadingWs(NextLine))
          /\ \A n \in 0..Len(LeadingWs(NextLine)) :
                MeasureFrom(SubSeq(NextLine, 1, n), 0, 0).column
                    = RefColumn(SubSeq(NextLine, 1, n))
          /\ (LogicalLineStart /\ ret'.tag = "None")
                => Last(indents') = RefColumn(LeadingWs(NextLine))
          /\ (LogicalLineStart /\ RefColumn(LeadingWs(NextLine)) = Last(indents))
                => /\ ret'.tag = "None"
                   /\ indents' = indents
                   /\ ~HasKind(NewTokens, "Indent")
                   /\ ~HasKind(NewTokens, "Dedent")
      ]_vars

\* a line indented by one tab and then a line indented by eight spaces: one
\* Indent, no Dedent, and two Names
C19_Witness ==
    /\ input = << "\t", "a", "\n" >> \o Spaces(8) \o << "a" >>
    /\ pc = "done"
    /\ ret.tag = "Ok"
    /\ KindCount(ret.tokens, Len(ret.tokens), "Indent") = 1
    /\ KindCount(ret.tokens, Len(ret.tokens), "Name") = 2
    /\ ret.tokens[1].kind = "Indent"
    /\ ret.tokens[4].kind = "Name"
    /\ indents = << 0, 8 >>

\* the entries of the indentation stack the step pops
Popped == {k \in 1..Len(indents) : ~Contains(indents', indents[k])}

IndentsWellFormed ==
    /\ indents # << >>
    /\ indents[1] = 0
    /\ \A k \in 1..(Len(indents) - 1) : indents[k] < indents[k + 1]

\* C20: in every reachable state the indentation stack is non-empty, has 0
\* at its bottom and increases strictly from bottom to top; every step, the
\* start of a logical line included, appends at most one Indent and as many
\* Dedents as it pops entries from the stack.
C20_IndentStack ==
    /\ []IndentsWellFormed
    /\ [][ /\ KindCount(NewTokens, Len(NewTokens), "Indent") <= 1
           /\ KindCount(NewTokens, Len(NewTokens), "Dedent") = Cardinality(Popped)
           /\ ~MeasuresLine => (KindCount(NewTokens, Len(NewTokens), "Indent") = 0
                                  /\ indents' = indents)
         ]_vars

\* two Indents, and then a line that popped both entries with two Dedents
C20_Witness ==
    /\ pc = "scan"
    /\ indents = << 0 >>
    /\ Len(result) >= 8
    /\ KindCount(result, Len(result), "Indent") = 2
    /\ result[Len(result)].kind = "Dedent"
    /\ result[Len(result) - 1].kind = "Dedent"
    /\ ret.tag = "None"

\* the step fetches a line that is no logical line start
FetchesContinuation ==
    /\ pc = "next_line"
    /\ lines < Len(input)
    /\ (contstr_start # None \/ UsizeGtZero(parenlev) \/ continued)

\* C21: the step that fetches a line while a string is open, while parenlev
\* is above zero or after a backslash continuation, and every step that
\* scans within a line, appends no Indent and no Dedent, does not fail with
\* the unindent error and leaves the indentation stack as it is.
C21_ContinuationKeepsIndents ==
    [][ (FetchesContinuation \/ pc = "scan") =>
            /\ ~HasKind(NewTokens, "Indent")
            /\ ~HasKind(NewTokens, "Dedent")
            /\ ~UnindentError(ret')
            /\ indents' = indents
      ]_vars

\* an indented line fetched inside brackets, below an unindented opener
C21_Witness ==
    /\ pc = "scan"
    /\ line_start > 0
    /\ line_pos = 0
    /\ At(input, line_start) = " "
    /\ UsizeGtZero(parenlev)
    /\ indents = << 0 >>
    /\ ~HasKind(result, "Indent")

\* the brackets opened and not closed by the tokens i..k
Depth(toks, i, k) ==
    Cardinality({m \in i..k : toks[m].kind = "OpenParen"})
        - Cardinality({m \in i..k : toks[m].kind = "CloseParen"})

\* the token at k is the closer that matches the opening bracket at i
Matches(toks, i, k) ==
    /\ toks[i].kind = "OpenParen"
    /\ toks[k].kind = "CloseParen"
    /\ i < k
    /\ Depth(toks, i, k) = 0
    /\ \A m \in i..(k - 1) : Depth(toks, i, m) > 0

\* the step scans a line terminator
ScansTerminator ==
    /\ pc = "scan"
    /\ TokClass(line, line_pos) = "plain"
    /\ At(line, PseudoMatch(line, line_pos).start) \in {"\r", "\n"}

\* a line terminator scanned in a line becomes a WhitespaceNewline exactly
\* when parenlev is above zero, and a Newline otherwise
TerminatorKindByParenlev ==
    [][ ScansTerminator =>
            /\ Len(NewTokens) = 1
            /\ NewTokens[1].kind \in {"WhitespaceNewline", "Newline"}
            /\ NewTokens[1].kind = "WhitespaceNewline" <=> UsizeGtZero(parenlev)
      ]_vars

\* no Newline stands between an opening bracket and its matching closer
NoNewlineInBrackets ==
    \A i \in 1..Len(result) : \A k \in 1..Len(result) :
        Matches(result, i, k) => \A j \in i..k : result[j].kind # "Newline"

\* C22: a line terminator scanned in a line is a WhitespaceNewline exactly
\* when parenlev is above zero and a Newline otherwise, and no Newline is
\* emitted between an opening bracket and its matching closer.
C22_NewlineKind == TerminatorKindByParenlev /\ []NoNewlineInBrackets

\* after its leading white space l holds only a comment or a line terminator
IsCommentOrBlank(l) ==
    /\ Len(LeadingWs(l)) < Len(l)
    /\ l[Len(LeadingWs(l)) + 1] \in {"#", "\r", "\n"}

\* the offset in l of its trailing line terminator, or its length
TerminatorAt(l) == IF l # << >> /\ Last(l) \in {"\r", "\n"} THEN Len(l) - 1 ELSE Len(l)

\* C23: at a logical line start, a line that after its leading white space
\* is only a comment or a line terminator appends a Comment, if it has one,
\* from the `#` to the line terminator, and then one WhitespaceNewline up to
\* the end of the line, and nothing else; it leaves the indentation stack,
\* parenlev, continued and the string state unchanged and does not fail.
C23_BlankLineFrame ==
    [][ (MeasuresLine /\ IsCommentOrBlank(NextLine)) =>
            /\ Len(NewTokens) = (IF NextLine[Len(LeadingWs(NextLine)) + 1] = "#" THEN 2 ELSE 1)
            /\ Last(NewTokens) =
                  Token("WhitespaceNewline",
                        lines + (IF Len(NewTokens) = 2 THEN TerminatorAt(NextLine)
                                 ELSE Len(LeadingWs(NextLine))),
                        lines + Len(NextLine))
            /\ Len(NewTokens) = 2 =>
                  NewTokens[1] = Token("Comment", lines + Len(LeadingWs(NextLine)),
                                       lines + TerminatorAt(NextLine))
            /\ UNCHANGED << indents, parenlev, continued, contstr_start, contstr_end_re,
                            needcont, ret >>
            /\ pc' = "next_line"
      ]_vars

\* a blank line at column 0 below an indented line and above a line at that
\* indentation: the block stays open
C23_Witness ==
    /\ pc = "done"
    /\ ret.tag = "Ok"
    /\ indents = << 0, 1 >>
    /\ \E k \in 2..(Len(ret.tokens) - 1) :
          /\ ret.tokens[k].kind = "WhitespaceNewline"
          /\ ret.tokens[k - 1].kind = "Newline"
          /\ ret.tokens[k - 1].span.end = ret.tokens[k].span.start
          /\ ret.tokens[k + 1].kind = "Name"
    /\ KindCount(ret.tokens, Len(ret.tokens), "Indent") = 1
    /\ KindCount(ret.tokens, Len(ret.tokens), "Dedent") = 1

\* the step fetches a line while a string is open
FetchesInString ==
    /\ pc = "next_line"
    /\ lines < Len(input)
    /\ contstr_start # None

\* the end in the fetched line of the open string's closing delimiter, or -1
ClosingEnd == FindAt(Unwrap(contstr_end_re), NextLine, 0)

\* the fetched line neither closes the open string nor breaks it off: any
\* line of a triple-quoted string, and a line that ends in a backslash in a
\* backslash-continued one
IsIntermediateLine ==
    /\ ClosingEnd = -1
    /\ (contstr_end_re = Some("DOUBLE3") \/ EndsWithBackslashNewline(NextLine))

\* C24: a line fetched while a string is open that holds the closing
\* delimiter appends exactly one Str from the opening quote to the end of the
\* delimiter, clears the string state and resumes the scan right after the
\* delimiter; an intermediate line appends no token and leaves the string open.
C24_MultiLineString ==
    [][ FetchesInString =>
            /\ At(input, Unwrap(contstr_start)) = "\""
            /\ ClosingEnd # -1 =>
                  /\ NewTokens = << Token("Str", Unwrap(contstr_start), lines + ClosingEnd) >>
                  /\ contstr_start' = None
                  /\ needcont' = FALSE
                  /\ line_pos' = ClosingEnd
                  /\ pc' = AfterToken(ClosingEnd, Len(NextLine))
            /\ IsIntermediateLine =>
                  /\ NewTokens = << >>
                  /\ contstr_start' = contstr_start
      ]_vars

\* needcont is set only while a backslash-continued string is open
NeedcontOnlyInContinuedString ==
    needcont => (contstr_start # None /\ contstr_end_re = Some("DOUBLE"))

\* C25: needcont is true only while a backslash-continued single-quoted
\* string is open, so it is false once the string state is cleared; and a
\* line fetched while a triple-quoted string is open never appends an
\* ErrorToken and leaves the string open unless it holds the closing delimiter.
C25_NeedcontCleared ==
    /\ []NeedcontOnlyInContinuedString
    /\ [][ (FetchesInString /\ contstr_end_re = Some("DOUBLE3")) =>
              /\ ~HasKind(NewTokens, "ErrorToken")
              /\ ClosingEnd = -1 => contstr_start' = contstr_start
         ]_vars

IsOneByte(t) == t.span.end = t.span.start + 1

\* C26 as stated: every ErrorToken of the output spans exactly one byte.
C26_ErrorTokenOneByte ==
    ret.tag = "Ok" =>
        \A k \in 1..Len(ret.tokens) :
            ret.tokens[k].kind = "ErrorToken" => IsOneByte(ret.tokens[k])

\* t runs from a quote over a line terminator to the end of a later line
IsBrokenString(t) ==
    /\ At(input, t.span.start) = "\""
    /\ t.span.end >= t.span.start + 4
    /\ t.span.end = Len(input) \/ At(input, t.span.end - 1) = "\n"
    /\ \E j \in t.span.start..(t.span.end - 2) : At(input, j) = "\n"

\* C26 amended: an ErrorToken appended by the scan within a line spans
\* exactly the one byte at the scan position; an ErrorToken appended for an
\* open string that the fetched line does not continue spans from the
\* string's opening quote to the end of that line; the output holds no other
\* ErrorToken.
C26_ErrorTokenSpans ==
    /\ [][ /\ pc = "scan" =>
                \A k \in 1..Len(NewTokens) :
                    NewTokens[k].kind = "ErrorToken" =>
                        NewTokens[k].span = Span(line_start + line_pos, line_start + line_pos + 1)
           /\ FetchesInString =>
                \A k \in 1..Len(NewTokens) :
                    NewTokens[k].kind = "ErrorToken" =>
                        /\ NewTokens[k].span = Span(Unwrap(contstr_start), LineEndFrom(input, lines))
                        /\ IsBrokenString(NewTokens[k])
           /\ ~(pc = "scan" \/ FetchesInString) => ~HasKind(NewTokens, "ErrorToken")
         ]_vars
    /\ [](ret.tag = "Ok" =>
            \A k \in 1..Len(ret.tokens) :
                ret.tokens[k].kind = "ErrorToken" =>
                    (IsOneByte(ret.tokens[k]) \/ IsBrokenString(ret.tokens[k])))

\* an output with the ErrorToken of a string broken off and a one-byte
\* ErrorToken after it
C26_Witness ==
    /\ ret.tag = "Ok"
    /\ Len(ret.tokens) >= 3
    /\ ret.tokens[1].kind = "ErrorToken"
    /\ ret.tokens[1].span = Span(0, 4)
    /\ ret.tokens[2].kind = "ErrorToken"
    /\ IsOneByte(ret.tokens[2])

\* the source is not empty and its final line has no terminator
LacksTerminator(s) == s # << >> /\ Last(s) \notin {"\r", "\n"}

\* the final line of a source without terminator holds white space only
RECURSIVE FinalLineBlank(_)
FinalLineBlank(s) ==
    \/ s = << >>
    \/ Last(s) = "\n"
    \/ (Last(s) \in {" ", "\t", "\f", "\r"} /\ FinalLineBlank(SubSeq(s, 1, Len(s) - 1)))

\* the tokens tokenize appends after its loop, as the claim lists them
ClosingTokens(s, depth) ==
    (IF LacksTerminator(s)
     THEN << Token(IF FinalLineBlank(s) THEN "WhitespaceNewline" ELSE "Newline",
                   Len(s), Len(s)) >>
     ELSE << >>)
        \o [k \in 1..(depth - 1) |-> Token("Dedent", Len(s), Len(s))]
        \o << Token("EndMarker", Len(s), Len(s)) >>

\* C27: on Ok the output is the tokens of the loop followed by a Newline of
\* length zero (a WhitespaceNewline if the final line is blank) exactly when
\* the source is not empty and its final line lacks a terminator, then by
\* one Dedent per entry of the indentation stack above the bottom one, then
\* by EndMarker, all of them at len(source)..len(source).
C27_ClosingTokens ==
    ret.tag = "Ok" => ret.tokens = result \o ClosingTokens(input, Len(indents))

\* an output that ends with the Newline of length zero, two Dedents and the
\* EndMarker
C27_Witness ==
    /\ ret.tag = "Ok"
    /\ Len(indents) = 3
    /\ LacksTerminator(input)
    /\ Len(ret.tokens) >= 9
    /\ ret.tokens[Len(ret.tokens) - 3] = Token("Newline", Len(input), Len(input))
    /\ ret.tokens[Len(ret.tokens) - 2].kind = "Dedent"
    /\ ret.tokens[Len(ret.tokens) - 4].kind = "Name"

\* C28: in the filtered tokens of a source that tokenizes, a Newline is
\* never the first token and never follows a Newline, an Indent or a Dedent.
C28_NewlineEndsStatement ==
    parse_tokens.tag = "Ok" =>
        \A k \in 1..Len(parse_tokens.tokens) :
            parse_tokens.tokens[k].kind = "Newline" =>
                /\ k > 1
                /\ parse_tokens.tokens[k - 1].kind \notin {"Newline", "Indent", "Dedent"}

====
